---- MODULE Spec2Model ----
(***************************************************************************)
(* DataPipeline (pipeline.js): language identification, quality heuristics *)
(* and n-gram deduplication over a shared, growing set of n-gram keys.     *)
(*                                                                         *)
(* A JavaScript string is a sequence of one-character strings.  A number   *)
(* that the code obtains by a division is the exact fraction               *)
(* [num |-> n, den |-> d] with d > 0: one IEEE division is correctly        *)
(* rounded, so two such numbers compare as their fractions do.             *)
(***************************************************************************)
EXTENDS Integers, Sequences, FiniteSets, TLC

(* ------------------------------ numbers ------------------------------- *)

Rat(n, d) == [num |-> n, den |-> d]

Zero == Rat(0, 1)

\* a < b, a > b, a >= b, a = b on fractions with positive denominators
Lt(a, b) == a.num * b.den < b.num * a.den

Gt(a, b) == Lt(b, a)

Ge(a, b) == ~Lt(a, b)

EqR(a, b) == a.num * b.den = b.num * a.den

\* x / y as the code guards it: `y > 0 ? x / y : 0`
Ratio(x, y) == IF y > 0 THEN Rat(x, y) ELSE Zero

(* ----------------------------- characters ----------------------------- *)

LowerChars == {"a", "b", "c", "d"}

UpperChars == {"A", "D"}

DigitChars == {"1"}

SpaceChars == {" ", "\n"}

PunctChars == {".", "!", "?"}

BulletChars == {"-", "*"}

\* /\s/
IsSpace(c) == c \in SpaceChars

LowerOf(c) == IF c = "A" THEN "a" ELSE IF c = "D" THEN "d" ELSE c

\* String.prototype.toLowerCase
ToLowerCase(text) == [i \in DOMAIN text |-> LowerOf(text[i])]

\* (text.match(/[class]/g) || []).length, the class given as its set of characters
CountChars(text, class) == Cardinality({i \in DOMAIN text : text[i] \in class})

(* ------------------------------ splitting ----------------------------- *)

\* text.split(/\s+/): the pieces between maximal whitespace runs, the empty
\* pieces at the ends included
RECURSIVE SplitWsFrom(_, _, _)
SplitWsFrom(text, i, cur) ==
  IF i > Len(text) THEN <<cur>>
  ELSE IF IsSpace(text[i])
       THEN IF i > 1 /\ IsSpace(text[i - 1])
            THEN SplitWsFrom(text, i + 1, cur)
            ELSE <<cur>> \o SplitWsFrom(text, i + 1, <<>>)
       ELSE SplitWsFrom(text, i + 1, Append(cur, text[i]))

SplitWs(text) == SplitWsFrom(text, 1, <<>>)

\* text.split('\n'): every line break separates
RECURSIVE SplitLinesFrom(_, _, _)
SplitLinesFrom(text, i, cur) ==
  IF i > Len(text) THEN <<cur>>
  ELSE IF text[i] = "\n"
       THEN <<cur>> \o SplitLinesFrom(text, i + 1, <<>>)
       ELSE SplitLinesFrom(text, i + 1, Append(cur, text[i]))

SplitLines(text) == SplitLinesFrom(text, 1, <<>>)

\* String.prototype.trim
RECURSIVE TrimStart(_)
TrimStart(s) ==
  IF s # <<>> /\ IsSpace(Head(s)) THEN TrimStart(Tail(s)) ELSE s

RECURSIVE TrimEnd(_)
TrimEnd(s) ==
  IF s # <<>> /\ IsSpace(s[Len(s)]) THEN TrimEnd(SubSeq(s, 1, Len(s) - 1)) ELSE s

Trim(s) == TrimEnd(TrimStart(s))

NonEmpty(s) == Len(s) > 0

NonBlank(line) == Len(Trim(line)) > 0

\* Array.prototype.slice(start, end), negative indices counted from the end
Slice(seq, start, end) ==
  LET n  == Len(seq)
      from == IF start < 0 THEN (IF n + start < 0 THEN 0 ELSE n + start)
              ELSE (IF start > n THEN n ELSE start)
      to == IF end < 0 THEN (IF n + end < 0 THEN 0 ELSE n + end)
            ELSE (IF end > n THEN n ELSE end)
  IN  SubSeq(seq, from + 1, to)

\* Array.prototype.join(sep)
RECURSIVE Join(_, _)
Join(seq, sep) ==
  IF seq = <<>> THEN <<>>
  ELSE IF Len(seq) = 1 THEN seq[1]
       ELSE seq[1] \o sep \o Join(Tail(seq), sep)

Range(seq) == {seq[i] : i \in DOMAIN seq}

RECURSIVE SumLen(_)
SumLen(seq) == IF seq = <<>> THEN 0 ELSE Len(Head(seq)) + SumLen(Tail(seq))

(* --------------------------- calculateMetrics ------------------------- *)

\* /[.!?]$/.test(line.trim())
EndsWithPunctuation(line) ==
  LET t == Trim(line) IN t # <<>> /\ t[Len(t)] \in PunctChars

\* /^[\s]*[-*...]/.test(line)
IsBulletLine(line) ==
  LET t == TrimStart(line) IN t # <<>> /\ t[1] \in BulletChars

\* /\.{2,}/.test(line)
HasEllipsis(line) ==
  \E i \in 1..(Len(line) - 1) : line[i] = "." /\ line[i + 1] = "."

\* calculateMetrics with the uppercase letters subtracted once more from the
\* symbol characters, as if they were not among the letters
CalculateMetricsUppercaseTwice(text) ==
  LET lines == SelectSeq(SplitLines(text), NonBlank)
      words == SelectSeq(SplitWs(text), NonEmpty)
      uniqueWords == {ToLowerCase(words[i]) : i \in DOMAIN words}
      totalChars == Len(text)
      alphaChars == CountChars(text, LowerChars \cup UpperChars)
      digitChars == CountChars(text, DigitChars)
      uppercaseChars == CountChars(text, UpperChars)
      whitespaceChars == CountChars(text, SpaceChars)
      symbolChars == totalChars - alphaChars - uppercaseChars - digitChars
                     - whitespaceChars
      linesEndingWithPunctuation == Len(SelectSeq(lines, EndsWithPunctuation))
      bulletLines == Len(SelectSeq(lines, IsBulletLine))
      ellipsisLines == Len(SelectSeq(lines, HasEllipsis))
      totalWordLength == SumLen(words)
  IN  [textLength |-> totalChars,
       wordCount |-> Len(words),
       uniqueWordCount |-> Cardinality(uniqueWords),
       lineCount |-> Len(lines),
       avgWordLength |-> Ratio(totalWordLength, Len(words)),
       uniqueWordsRatio |-> Ratio(Cardinality(uniqueWords), Len(words)),
       digitRatio |-> Ratio(digitChars, totalChars),
       uppercaseRatio |-> Ratio(uppercaseChars, alphaChars),
       symbolToWordRatio |-> Ratio(symbolChars, Len(words)),
       linesEndingWithPunctuationRatio |-> Ratio(linesEndingWithPunctuation, Len(lines)),
       bulletPointRatio |-> Ratio(bulletLines, Len(lines)),
       ellipsisLineRatio |-> Ratio(ellipsisLines, Len(lines))]

\* calculateMetrics dividing without the `> 0 ? ... : 0` guards: x / 0 is
\* the fraction with denominator 0 (NaN or Infinity)
CalculateMetricsUnguarded(text) ==
  LET lines == SelectSeq(SplitLines(text), NonBlank)
      words == SelectSeq(SplitWs(text), NonEmpty)
      uniqueWords == {ToLowerCase(words[i]) : i \in DOMAIN words}
      totalChars == Len(text)
      alphaChars == CountChars(text, LowerChars \cup UpperChars)
      digitChars == CountChars(text, DigitChars)
      uppercaseChars == CountChars(text, UpperChars)
      whitespaceChars == CountChars(text, SpaceChars)
      symbolChars == totalChars - alphaChars - digitChars - whitespaceChars
      linesEndingWithPunctuation == Len(SelectSeq(lines, EndsWithPunctuation))
      bulletLines == Len(SelectSeq(lines, IsBulletLine))
      ellipsisLines == Len(SelectSeq(lines, HasEllipsis))
      totalWordLength == SumLen(words)
  IN  [textLength |-> totalChars,
       wordCount |-> Len(words),
       uniqueWordCount |-> Cardinality(uniqueWords),
       lineCount |-> Len(lines),
       avgWordLength |-> Rat(totalWordLength, Len(words)),
       uniqueWordsRatio |-> Rat(Cardinality(uniqueWords), Len(words)),
       digitRatio |-> Rat(digitChars, totalChars),
       uppercaseRatio |-> Rat(uppercaseChars, alphaChars),
       symbolToWordRatio |-> Rat(symbolChars, Len(words)),
       linesEndingWithPunctuationRatio |-> Rat(linesEndingWithPunctuation, Len(lines)),
       bulletPointRatio |-> Rat(bulletLines, Len(lines)),
       ellipsisLineRatio |-> Rat(ellipsisLines, Len(lines))]

CalculateMetrics(text) ==
  LET lines == SelectSeq(SplitLines(text), NonBlank)
      words == SelectSeq(SplitWs(text), NonEmpty)
      uniqueWords == {ToLowerCase(words[i]) : i \in DOMAIN words}
      totalChars == Len(text)
      alphaChars == CountChars(text, LowerChars \cup UpperChars)
      digitChars == CountChars(text, DigitChars)
      uppercaseChars == CountChars(text, UpperChars)
      whitespaceChars == CountChars(text, SpaceChars)
      symbolChars == totalChars - alphaChars - digitChars - whitespaceChars
      linesEndingWithPunctuation == Len(SelectSeq(lines, EndsWithPunctuation))
      bulletLines == Len(SelectSeq(lines, IsBulletLine))
      ellipsisLines == Len(SelectSeq(lines, HasEllipsis))
      totalWordLength == SumLen(words)
  IN  [textLength |-> totalChars,
       wordCount |-> Len(words),
       uniqueWordCount |-> Cardinality(uniqueWords),
       lineCount |-> Len(lines),
       avgWordLength |-> Ratio(totalWordLength, Len(words)),
       uniqueWordsRatio |-> Ratio(Cardinality(uniqueWords), Len(words)),
       digitRatio |-> Ratio(digitChars, totalChars),
       uppercaseRatio |-> Ratio(uppercaseChars, alphaChars),
       symbolToWordRatio |-> Ratio(symbolChars, Len(words)),
       linesEndingWithPunctuationRatio |-> Ratio(linesEndingWithPunctuation, Len(lines)),
       bulletPointRatio |-> Ratio(bulletLines, Len(lines)),
       ellipsisLineRatio |-> Ratio(ellipsisLines, Len(lines))]

MetricNames ==
  {"textLength", "wordCount", "uniqueWordCount", "lineCount", "avgWordLength",
   "uniqueWordsRatio", "digitRatio", "uppercaseRatio", "symbolToWordRatio",
   "linesEndingWithPunctuationRatio", "bulletPointRatio", "ellipsisLineRatio"}

(* ----------------------------- constructor ---------------------------- *)

\* the value JavaScript's null is modelled by
Null == "null"

\* options compared as whole numbers, and options compared as fractions
IntOptions == {"minTextLength", "maxTextLength", "minWordCount", "ngramSize"}

RatOptions ==
  {"minLanguageConfidence", "minAvgWordLength", "maxAvgWordLength",
   "minLinesEndingWithPunctuation", "maxBulletPointRatio", "maxEllipsisLineRatio",
   "maxSymbolToWordRatio", "maxDigitRatio", "maxUppercaseRatio",
   "minUniqueWordsRatio", "maxRepetitiveNGramRatio", "ngramOverlapThreshold"}

\* the right-hand sides of `options.x || <default>`
OptionDefaults ==
  [targetLanguages |-> <<"eng">>,
   minLanguageConfidence |-> Rat(1, 2),
   minTextLength |-> 100,
   maxTextLength |-> 100000,
   minWordCount |-> 20,
   minAvgWordLength |-> Rat(3, 1),
   maxAvgWordLength |-> Rat(15, 1),
   minLinesEndingWithPunctuation |-> Rat(1, 2),
   maxBulletPointRatio |-> Rat(1, 2),
   maxEllipsisLineRatio |-> Rat(3, 10),
   maxSymbolToWordRatio |-> Rat(1, 10),
   maxDigitRatio |-> Rat(15, 100),
   maxUppercaseRatio |-> Rat(1, 5),
   minUniqueWordsRatio |-> Rat(3, 10),
   maxRepetitiveNGramRatio |-> Rat(15, 100),
   ngramSize |-> 13,
   ngramOverlapThreshold |-> Rat(4, 5)]

\* JavaScript truthiness of the value supplied for option k
Truthy(k, v) ==
  IF k \in IntOptions THEN v # 0
  ELSE IF k \in RatOptions THEN v.num # 0
  ELSE TRUE

\* the constructor without the trailing `...options`: a falsy value given
\* for an option is replaced by its default, and unknown options are dropped
ConstructorWithoutSpread(opts) ==
  LET defaulted == [k \in DOMAIN OptionDefaults |->
                      IF k \in DOMAIN opts /\ Truthy(k, opts[k])
                      THEN opts[k] ELSE OptionDefaults[k]]
  IN  [options |-> defaulted, seenNGrams |-> {}, processedDocuments |-> 0]

\* new DataPipeline(opts): the defaults taken by `||`, then `...options`
\* spread over them; the dedup state starts empty
Constructor(opts) ==
  LET defaulted == [k \in DOMAIN OptionDefaults |->
                      IF k \in DOMAIN opts /\ Truthy(k, opts[k])
                      THEN opts[k] ELSE OptionDefaults[k]]
      spread == [k \in (DOMAIN defaulted) \cup (DOMAIN opts) |->
                      IF k \in DOMAIN opts THEN opts[k] ELSE defaulted[k]]
  IN  [options |-> spread, seenNGrams |-> {}, processedDocuments |-> 0]

(* --------------------------- identifyLanguage ------------------------- *)

\* Array.prototype.includes
Includes(seq, x) == \E i \in DOMAIN seq : seq[i] = x

\* identifyLanguage whose catch block lets the text through (passed: true)
IdentifyLanguageFailsOpen(self, text, classify) ==
  LET out == classify[text]
      languages == out.languages
  IN  IF out.kind = "throw"
      THEN [passed |-> TRUE, detected |-> "error", confidence |-> Zero,
            reason |-> "Language detection error"]
      ELSE IF \/ out.kind = "null"
              \/ Len(languages) = 0
              \/ (Len(languages[1]) >= 1 /\ languages[1][1] = "und")
      THEN [passed |-> FALSE, detected |-> "undetermined", confidence |-> Zero,
            reason |-> "Could not determine language"]
      ELSE IF Len(languages[1]) < 2
      THEN [passed |-> TRUE, detected |-> "error", confidence |-> Zero,
            reason |-> "Language detection error"]
      ELSE [passed |-> Includes(self.options.targetLanguages, languages[1][1])
                       /\ Ge(languages[1][2], self.options.minLanguageConfidence),
            detected |-> languages[1][1],
            confidence |-> languages[1][2],
            allDetections |-> [i \in DOMAIN Slice(languages, 0, 3) |->
                                 [language |-> languages[i][1],
                                  confidence |-> languages[i][2]]],
            reason |-> Null]

\* identifyLanguage with `>` for `>=`: a confidence at the minimum fails
IdentifyLanguageStrict(self, text, classify) ==
  LET out == classify[text]
      languages == out.languages
  IN  IF out.kind = "throw"
      THEN [passed |-> FALSE, detected |-> "error", confidence |-> Zero,
            reason |-> "Language detection error"]
      ELSE IF \/ out.kind = "null"
              \/ Len(languages) = 0
              \/ (Len(languages[1]) >= 1 /\ languages[1][1] = "und")
      THEN [passed |-> FALSE, detected |-> "undetermined", confidence |-> Zero,
            reason |-> "Could not determine language"]
      ELSE IF Len(languages[1]) < 2
      THEN [passed |-> FALSE, detected |-> "error", confidence |-> Zero,
            reason |-> "Language detection error"]
      ELSE LET passed == Includes(self.options.targetLanguages, languages[1][1])
                         /\ Gt(languages[1][2], self.options.minLanguageConfidence)
           IN  [passed |-> passed,
                detected |-> languages[1][1],
                confidence |-> languages[1][2],
                allDetections |-> [i \in DOMAIN Slice(languages, 0, 3) |->
                                     [language |-> languages[i][1],
                                      confidence |-> languages[i][2]]],
                reason |-> IF ~passed
                           THEN "Language not in target languages or low confidence"
                           ELSE Null]

\* francAll's behaviour on one text is [kind, languages]: it throws, returns
\* null, or returns a list of entries, best first; an entry is a
\* <<code, confidence>> pair, or malformed: a list too short to hold a
\* confidence.  classify[text] is that behaviour.
\* With an entry without confidence, `confidence` is undefined, passed is
\* false and `confidence.toFixed(2)` of line 183 throws inside the try.
IdentifyLanguage(self, text, classify) ==
  LET out == classify[text]
      languages == out.languages
  IN  IF out.kind = "throw"
      THEN [passed |-> FALSE, detected |-> "error", confidence |-> Zero,
            reason |-> "Language detection error"]
      ELSE IF \/ out.kind = "null"
              \/ Len(languages) = 0
              \/ (Len(languages[1]) >= 1 /\ languages[1][1] = "und")
      THEN [passed |-> FALSE, detected |-> "undetermined", confidence |-> Zero,
            reason |-> "Could not determine language"]
      ELSE IF Len(languages[1]) < 2
      THEN [passed |-> FALSE, detected |-> "error", confidence |-> Zero,
            reason |-> "Language detection error"]
      ELSE LET detectedLang == languages[1][1]
               confidence == languages[1][2]
               passed == Includes(self.options.targetLanguages, detectedLang)
                         /\ Ge(confidence, self.options.minLanguageConfidence)
           IN  [passed |-> passed,
                detected |-> detectedLang,
                confidence |-> confidence,
                allDetections |-> [i \in DOMAIN Slice(languages, 0, 3) |->
                                     [language |-> languages[i][1],
                                      confidence |-> languages[i][2]]],
                reason |-> IF ~passed
                           THEN "Language not in target languages or low confidence"
                           ELSE Null]

(* -------------------------- applyQualityFilters ----------------------- *)

\* applyQualityFilters with `<=` for the `<` of tooShort
ApplyQualityFiltersInclusive(self, text, metrics) ==
  [tooShort |-> metrics.textLength <= self.options.minTextLength,
   tooLong |-> metrics.textLength > self.options.maxTextLength,
   tooFewWords |-> metrics.wordCount < self.options.minWordCount,
   wordsTooShort |-> Lt(metrics.avgWordLength, self.options.minAvgWordLength),
   wordsTooLong |-> Gt(metrics.avgWordLength, self.options.maxAvgWordLength),
   insufficientPunctuation |->
     Lt(metrics.linesEndingWithPunctuationRatio, self.options.minLinesEndingWithPunctuation),
   tooManyBullets |-> Gt(metrics.bulletPointRatio, self.options.maxBulletPointRatio),
   tooManyEllipsis |-> Gt(metrics.ellipsisLineRatio, self.options.maxEllipsisLineRatio),
   tooManySymbols |-> Gt(metrics.symbolToWordRatio, self.options.maxSymbolToWordRatio),
   tooManyDigits |-> Gt(metrics.digitRatio, self.options.maxDigitRatio),
   tooManyUppercase |-> Gt(metrics.uppercaseRatio, self.options.maxUppercaseRatio),
   insufficientVariety |-> Lt(metrics.uniqueWordsRatio, self.options.minUniqueWordsRatio)]

ApplyQualityFilters(self, text, metrics) ==
  [tooShort |-> metrics.textLength < self.options.minTextLength,
   tooLong |-> metrics.textLength > self.options.maxTextLength,
   tooFewWords |-> metrics.wordCount < self.options.minWordCount,
   wordsTooShort |-> Lt(metrics.avgWordLength, self.options.minAvgWordLength),
   wordsTooLong |-> Gt(metrics.avgWordLength, self.options.maxAvgWordLength),
   insufficientPunctuation |->
     Lt(metrics.linesEndingWithPunctuationRatio, self.options.minLinesEndingWithPunctuation),
   tooManyBullets |-> Gt(metrics.bulletPointRatio, self.options.maxBulletPointRatio),
   tooManyEllipsis |-> Gt(metrics.ellipsisLineRatio, self.options.maxEllipsisLineRatio),
   tooManySymbols |-> Gt(metrics.symbolToWordRatio, self.options.maxSymbolToWordRatio),
   tooManyDigits |-> Gt(metrics.digitRatio, self.options.maxDigitRatio),
   tooManyUppercase |-> Gt(metrics.uppercaseRatio, self.options.maxUppercaseRatio),
   insufficientVariety |-> Lt(metrics.uniqueWordsRatio, self.options.minUniqueWordsRatio)]

QualityFilterNames ==
  {"tooShort", "tooLong", "tooFewWords", "wordsTooShort", "wordsTooLong",
   "insufficientPunctuation", "tooManyBullets", "tooManyEllipsis", "tooManySymbols",
   "tooManyDigits", "tooManyUppercase", "insufficientVariety"}

(* ------------------------------- n-grams ------------------------------ *)

\* generateNGrams with `<` for the `<=` of its loop: the last window is lost
GenerateNGramsOffByOne(self, text, n) ==
  LET ngramSize == IF n # 0 THEN n ELSE self.options.ngramSize
      words == SelectSeq(SplitWs(ToLowerCase(text)), NonEmpty)
  IN  [k \in 1..(Len(words) - ngramSize) |->
         Join(Slice(words, k - 1, k - 1 + ngramSize), <<" ">>)]

\* generateNGrams that strips the punctuation of every word before joining
GenerateNGramsStrippingPunctuation(self, text, n) ==
  LET ngramSize == IF n # 0 THEN n ELSE self.options.ngramSize
      IsWordChar(c) == c \notin {".", "!", "-", "*"}
      words == SelectSeq(SplitWs(ToLowerCase(SelectSeq(text, IsWordChar))), NonEmpty)
  IN  [k \in 1..(Len(words) - ngramSize + 1) |->
         Join(Slice(words, k - 1, k - 1 + ngramSize), <<" ">>)]

\* generateNGrams(text, n): n = 0 stands for the omitted (null) argument,
\* which `n || this.options.ngramSize` treats alike
GenerateNGrams(self, text, n) ==
  LET ngramSize == IF n # 0 THEN n ELSE self.options.ngramSize
      words == SelectSeq(SplitWs(ToLowerCase(text)), NonEmpty)
  IN  [k \in 1..(Len(words) - ngramSize + 1) |->
         Join(Slice(words, k - 1, k - 1 + ngramSize), <<" ">>)]

\* checkDuplicates without the early return of a text that has no n-grams:
\* its ratio, taken as 0, is compared with the threshold like any other
CheckDuplicatesComparesEmpty(self, text) ==
  LET ngrams == GenerateNGrams(self, text, 0)
      InSeen(ngram) == ngram \in self.seenNGrams
      seenCount == Len(SelectSeq(ngrams, InSeen))
      overlapRatio == Ratio(seenCount, Len(ngrams))
      passed == Lt(overlapRatio, self.options.ngramOverlapThreshold)
  IN  [passed |-> passed,
       overlapRatio |-> overlapRatio,
       totalNGrams |-> Len(ngrams),
       duplicateNGrams |-> seenCount,
       reason |-> IF ~passed THEN "High n-gram overlap ratio" ELSE Null]

\* checkDuplicates that adds each n-gram to the set as it goes, so a window
\* repeated inside the document counts as seen from its second occurrence on
CheckDuplicatesCountsRepeats(self, text) ==
  LET ngrams == GenerateNGrams(self, text, 0)
      seenCount == Cardinality({k \in DOMAIN ngrams :
                                  \/ ngrams[k] \in self.seenNGrams
                                  \/ \E j \in 1..(k - 1) : ngrams[j] = ngrams[k]})
      overlapRatio == Rat(seenCount, Len(ngrams))
      passed == Lt(overlapRatio, self.options.ngramOverlapThreshold)
  IN  IF Len(ngrams) = 0
      THEN [passed |-> TRUE, overlapRatio |-> Zero, reason |-> Null]
      ELSE [passed |-> passed,
            overlapRatio |-> overlapRatio,
            totalNGrams |-> Len(ngrams),
            duplicateNGrams |-> seenCount,
            reason |-> IF ~passed THEN "High n-gram overlap ratio" ELSE Null]

\* checkDuplicates with `<=` for `<`: a document at the threshold passes
CheckDuplicatesInclusive(self, text) ==
  LET ngrams == GenerateNGrams(self, text, 0)
      InSeen(ngram) == ngram \in self.seenNGrams
      seenCount == Len(SelectSeq(ngrams, InSeen))
      overlapRatio == Rat(seenCount, Len(ngrams))
      passed == ~Gt(overlapRatio, self.options.ngramOverlapThreshold)
  IN  IF Len(ngrams) = 0
      THEN [passed |-> TRUE, overlapRatio |-> Zero, reason |-> Null]
      ELSE [passed |-> passed,
            overlapRatio |-> overlapRatio,
            totalNGrams |-> Len(ngrams),
            duplicateNGrams |-> seenCount,
            reason |-> IF ~passed THEN "High n-gram overlap ratio" ELSE Null]

CheckDuplicates(self, text) ==
  LET ngrams == GenerateNGrams(self, text, 0)
      InSeen(ngram) == ngram \in self.seenNGrams
      seenCount == Len(SelectSeq(ngrams, InSeen))
      overlapRatio == Rat(seenCount, Len(ngrams))
      passed == Lt(overlapRatio, self.options.ngramOverlapThreshold)
  IN  IF Len(ngrams) = 0
      THEN [passed |-> TRUE, overlapRatio |-> Zero, reason |-> Null]
      ELSE [passed |-> passed,
            overlapRatio |-> overlapRatio,
            totalNGrams |-> Len(ngrams),
            duplicateNGrams |-> seenCount,
            reason |-> IF ~passed THEN "High n-gram overlap ratio" ELSE Null]

\* addNGrams that stores the first n-gram only
AddNGramsFirstOnly(self, text) ==
  LET ngrams == GenerateNGrams(self, text, 0)
  IN  [self EXCEPT !.seenNGrams = @ \cup Range(Slice(ngrams, 0, 1))]

\* addNGrams that replaces the set: this.seenNGrams = new Set(ngrams)
AddNGramsReplacing(self, text) ==
  LET ngrams == GenerateNGrams(self, text, 0)
  IN  [self EXCEPT !.seenNGrams = Range(ngrams)]

AddNGrams(self, text) ==
  LET ngrams == GenerateNGrams(self, text, 0)
  IN  [self EXCEPT !.seenNGrams = @ \cup Range(ngrams)]

\* reset that zeroes the counter and keeps the set
ResetKeepsSet(self) ==
  [self EXCEPT !.processedDocuments = 0]

\* reset that clears the set and keeps the counter
ResetKeepsCounter(self) ==
  [self EXCEPT !.seenNGrams = {}]

Reset(self) ==
  [self EXCEPT !.seenNGrams = {}, !.processedDocuments = 0]

GetStats(self) ==
  [processedDocuments |-> self.processedDocuments,
   uniqueNGrams |-> Cardinality(self.seenNGrams),
   memoryUsage |-> [ngramSetSize |-> Cardinality(self.seenNGrams),
                    estimatedMB |-> Rat(Cardinality(self.seenNGrams) * 100, 1024 * 1024)]]

(* --------------------------- processDocument -------------------------- *)

\* the value null (or undefined) given as the document; every other document
\* is the record of its fields
NullDocument == [isNull |-> TRUE]

\* document.text || document.filteredText || ''
ExtractTextPreferringText(document) ==
  IF "text" \in DOMAIN document /\ document.text # <<>>
  THEN document.text
  ELSE IF "filteredText" \in DOMAIN document /\ document.filteredText # <<>>
       THEN document.filteredText
       ELSE <<>>

\* document.filteredText || document.text || ''
ExtractText(document) ==
  IF "filteredText" \in DOMAIN document /\ document.filteredText # <<>>
  THEN document.filteredText
  ELSE IF "text" \in DOMAIN document /\ document.text # <<>>
       THEN document.text
       ELSE <<>>

\* the call returns result = { ...document, pipeline: {passed, filters, metrics} }:
\* the document's fields, its pipeline field (if it has one) replaced
Outcome(self, document, passed, filters, metrics) ==
  [self |-> self,
   threw |-> FALSE,
   result |-> ("pipeline" :> [passed |-> passed, filters |-> filters, metrics |-> metrics])
              @@ document]

\* the call throws a TypeError (its promise is rejected)
TypeError(self) ==
  [self |-> self, threw |-> TRUE, result |-> [error |-> "TypeError"]]

\* the commit without `this.processedDocuments++`
CommitWithoutCount(self, text) ==
  AddNGrams(self, text)

\* the commit of an accepted document: addNGrams, then processedDocuments++
Commit(self, text) ==
  [AddNGrams(self, text) EXCEPT !.processedDocuments = @ + 1]

\* Object.values(qualityFilters).some(v => v === true)
SomeTrue(flags) == \E k \in DOMAIN flags : flags[k] = TRUE

\* processDocument without the `return result` of the quality branch: a
\* document that fails a quality check goes on to the duplicate check and
\* to the commit
ProcessDocumentFallsThrough(self, document, classify) ==
  LET text == ExtractText(document)
      languageCheck == IdentifyLanguage(self, text, classify)
      metrics == CalculateMetrics(text)
      qualityFilters == ApplyQualityFilters(self, text, metrics)
      duplicateCheck == CheckDuplicates(self, text)
      filters1 == "language" :> (~languageCheck.passed)
      metrics1 == "language" :> languageCheck
      metrics2 == metrics @@ metrics1
      filters2 == qualityFilters @@ filters1
      metrics3 == ("ngramDuplication" :> duplicateCheck) @@ metrics2
      filters3 == ("duplicate" :> (~duplicateCheck.passed)) @@ filters2
  IN  IF document = NullDocument
      THEN TypeError(self)
      ELSE IF text = <<>>
      THEN Outcome(self, document, FALSE, "emptyText" :> TRUE, <<>>)
      ELSE IF ~languageCheck.passed
      THEN Outcome(self, document, FALSE, filters1, metrics1)
      ELSE IF ~duplicateCheck.passed
      THEN Outcome(self, document, FALSE, filters3, metrics3)
      ELSE Outcome(Commit(self, text), document, ~SomeTrue(qualityFilters),
                   filters3, metrics3)

\* processDocument whose language stage sets the flag and returns without
\* `result.pipeline.passed = false`
ProcessDocumentLeavesPassed(self, document, classify) ==
  LET text == ExtractText(document)
      languageCheck == IdentifyLanguage(self, text, classify)
      metrics == CalculateMetrics(text)
      qualityFilters == ApplyQualityFilters(self, text, metrics)
      duplicateCheck == CheckDuplicates(self, text)
      filters1 == "language" :> (~languageCheck.passed)
      metrics1 == "language" :> languageCheck
      metrics2 == metrics @@ metrics1
      filters2 == qualityFilters @@ filters1
      metrics3 == ("ngramDuplication" :> duplicateCheck) @@ metrics2
      filters3 == ("duplicate" :> (~duplicateCheck.passed)) @@ filters2
  IN  IF document = NullDocument
      THEN TypeError(self)
      ELSE IF text = <<>>
      THEN Outcome(self, document, FALSE, "emptyText" :> TRUE, <<>>)
      ELSE IF ~languageCheck.passed
      THEN Outcome(self, document, TRUE, filters1, metrics1)
      ELSE IF SomeTrue(qualityFilters)
      THEN Outcome(self, document, FALSE, filters2, metrics2)
      ELSE IF ~duplicateCheck.passed
      THEN Outcome(self, document, FALSE, filters3, metrics3)
      ELSE Outcome(Commit(self, text), document, TRUE, filters3, metrics3)

\* one call of processDocument: the instance after it and the value returned.
\* `{ ...document }` accepts null; `document.filteredText` of line 64 throws on it
ProcessDocument(self, document, classify) ==
  LET text == ExtractText(document)
      languageCheck == IdentifyLanguage(self, text, classify)
      metrics == CalculateMetrics(text)
      qualityFilters == ApplyQualityFilters(self, text, metrics)
      duplicateCheck == CheckDuplicates(self, text)
      filters1 == "language" :> (~languageCheck.passed)
      metrics1 == "language" :> languageCheck
      metrics2 == metrics @@ metrics1
      filters2 == qualityFilters @@ filters1
      metrics3 == ("ngramDuplication" :> duplicateCheck) @@ metrics2
      filters3 == ("duplicate" :> (~duplicateCheck.passed)) @@ filters2
  IN  IF document = NullDocument
      THEN TypeError(self)
      ELSE IF text = <<>>
      THEN Outcome(self, document, FALSE, "emptyText" :> TRUE, <<>>)
      ELSE IF ~languageCheck.passed
      THEN Outcome(self, document, FALSE, filters1, metrics1)
      ELSE IF SomeTrue(qualityFilters)
      THEN Outcome(self, document, FALSE, filters2, metrics2)
      ELSE IF ~duplicateCheck.passed
      THEN Outcome(self, document, FALSE, filters3, metrics3)
      ELSE Outcome(Commit(self, text), document, TRUE, filters3, metrics3)

(* ----------------------- processBatch, exportFiltered ----------------- *)

\* the failure reasons counted with a `break` after the first true flag
CountReasonsFirstOnly(failureReasons, filters) ==
  LET failed == {f \in DOMAIN filters : filters[f]}
      first == IF failed = {} THEN {} ELSE {CHOOSE f \in failed : TRUE}
  IN  [f \in (DOMAIN failureReasons) \cup first |->
         (IF f \in DOMAIN failureReasons THEN failureReasons[f] ELSE 0)
         + (IF f \in first THEN 1 ELSE 0)]

\* stats.failureReasons[filter] = (stats.failureReasons[filter] || 0) + 1
\* for every entry of filters that is true
CountReasons(failureReasons, filters) ==
  LET failed == {f \in DOMAIN filters : filters[f]}
  IN  [f \in (DOMAIN failureReasons) \cup failed |->
         (IF f \in DOMAIN failureReasons THEN failureReasons[f] ELSE 0)
         + (IF f \in failed THEN 1 ELSE 0)]

\* the body of processBatch's loop after processDocument has returned
Tally(stats, result) ==
  IF result.pipeline.passed
  THEN [stats EXCEPT !.passed = @ + 1]
  ELSE [stats EXCEPT !.failed = @ + 1,
                     !.failureReasons = CountReasons(@, result.pipeline.filters)]

InitialStats(documents) ==
  [total |-> Len(documents), passed |-> 0, failed |-> 0, failureReasons |-> <<>>]

BatchReturn(results, stats) ==
  [results |-> results, stats |-> stats, passRate |-> Ratio(stats.passed, stats.total)]

\* processBatch(documents) run from self with no other call between its
\* awaits, from the document at place i on: the instance after it, the value
\* returned or the error thrown, and (done) the local results when it ended
RECURSIVE RunBatch(_, _, _, _, _, _)
RunBatch(self, documents, i, results, stats, classify) ==
  IF i > Len(documents)
  THEN [self |-> self, threw |-> FALSE, ret |-> BatchReturn(results, stats),
        done |-> results]
  ELSE LET out == ProcessDocument(self, documents[i], classify)
       IN  IF out.threw
           THEN [self |-> out.self, threw |-> TRUE, ret |-> out.result,
                 done |-> results]
           ELSE RunBatch(out.self, documents, i + 1, Append(results, out.result),
                         Tally(stats, out.result), classify)

ProcessBatch(self, documents, classify) ==
  RunBatch(self, documents, 1, <<>>, InitialStats(documents), classify)

\* the promise an invocation of processDocument returns, as it settles
Promise(out) == [rejected |-> out.threw, value |-> out.result]

\* processDocument invoked for the documents from place i on, none of the
\* calls awaited: the body has no await, so each invocation runs to its return
\* (or throw) before the caller goes on to the next
RECURSIVE InvokeFrom(_, _, _, _, _)
InvokeFrom(self, documents, i, promises, classify) ==
  IF i > Len(documents)
  THEN [self |-> self, promises |-> promises]
  ELSE LET out == ProcessDocument(self, documents[i], classify)
       IN  InvokeFrom(out.self, documents, i + 1, Append(promises, Promise(out)),
                      classify)

\* the invocations each deciding against the instance as it was before the
\* first of them, their commits applied afterwards
InvokeAllOnSnapshot(self, documents, classify) ==
  LET outs == [i \in DOMAIN documents |-> ProcessDocument(self, documents[i], classify)]
  IN  [self |-> [self EXCEPT
                   !.seenNGrams = @ \cup UNION {outs[i].self.seenNGrams : i \in DOMAIN outs},
                   !.processedDocuments =
                      @ + Cardinality({i \in DOMAIN outs :
                                         outs[i].self.processedDocuments > @})],
       promises |-> [i \in DOMAIN outs |-> Promise(outs[i])]]

\* documents.map(d => pipeline.processDocument(d)): the instance after the
\* invocations and the promises they returned, in the order of invocation
InvokeAll(self, documents, classify) ==
  InvokeFrom(self, documents, 1, <<>>, classify)

\* exportFiltered without its filter: every result is exported
ExportFilteredUnfiltered(processedResults) ==
  [i \in DOMAIN processedResults |->
     [k \in (DOMAIN processedResults[i]) \ {"pipeline"} |-> processedResults[i][k]]]

\* exportFiltered: the passed results, each copied without its pipeline field
\* (const { pipeline, ...cleanDoc } = doc)
ExportFiltered(processedResults) ==
  LET Passed(doc) == doc.pipeline.passed
      kept == SelectSeq(processedResults, Passed)
  IN  [i \in DOMAIN kept |->
         [k \in (DOMAIN kept[i]) \ {"pipeline"} |-> kept[i][k]]]

(* ------------------------------- inputs ------------------------------- *)

tABC == <<"a", " ", "b", " ", "c">>

tABD == <<"a", " ", "b", " ", "d">>

\* one word three times, in mixed case and with mixed whitespace
tDDD == <<"D", " ", " ", "d", "\n", "d">>

tCD == <<"c", " ", "d">>

tA == <<"a">>

tBlank == <<" ">>

tFra == <<"d", " ", "c", " ", "b">>

tErr == <<"1", " ", "1">>

\* a text that is not a string (the number 42): it is truthy, and francAll's
\* `value.length < minLength` is false of it
tNumber == <<"42">>

\* one word with more symbol characters than words
tSymbols == <<"a", "!", "!">>

Texts == {tABC, tABD, tDDD, tCD, tA, tBlank, tFra, tErr, tNumber, tSymbols, <<>>}

Corpus ==
  {[filteredText |-> tABC], [filteredText |-> tABD], [filteredText |-> tDDD],
   [text |-> tCD], [filteredText |-> tA], [filteredText |-> tBlank],
   [filteredText |-> tFra], [filteredText |-> tErr], [filteredText |-> <<>>],
   [title |-> "untitled"], [text |-> tNumber], [text |-> tSymbols], NullDocument,
   [filteredText |-> tABC, text |-> tFra], [filteredText |-> <<>>, text |-> tCD]}

English == [kind |-> "list",
            languages |-> <<<<"eng", Rat(1, 1)>>, <<"sco", Rat(9, 10)>>,
                            <<"fra", Rat(1, 2)>>, <<"deu", Rat(1, 5)>>>>]

French == [kind |-> "list",
           languages |-> <<<<"fra", Rat(1, 1)>>, <<"eng", Rat(4, 5)>>>>]

WeakEnglish == [kind |-> "list", languages |-> <<<<"eng", Rat(2, 5)>>>>]

\* the top candidate at exactly the default minLanguageConfidence
BarelyEnglish == [kind |-> "list",
                  languages |-> <<<<"eng", Rat(1, 2)>>, <<"sco", Rat(2, 5)>>>>]

\* malformed output: an entry without a confidence
MissingConfidence == [kind |-> "list", languages |-> <<<<"eng">>>>]

Undetermined == [kind |-> "list", languages |-> <<<<"und", Rat(1, 1)>>>>]

NoCandidates == [kind |-> "list", languages |-> <<>>]

Throws == [kind |-> "throw", languages |-> <<>>]

ReturnsNull == [kind |-> "null", languages |-> <<>>]

\* the classifier is a function of the text; these are the ones considered
ClassifierA ==
  [t \in Texts |->
     IF t \in {tABC, tABD, tDDD, tCD, tA, tSymbols} THEN English
     ELSE IF t = tFra THEN French
     ELSE IF t \in {tErr, tNumber} THEN Throws
     ELSE Undetermined]

ClassifierB ==
  [t \in Texts |->
     IF t \in {tABC, tDDD, tSymbols} THEN English
     ELSE IF t = tABD THEN BarelyEnglish
     ELSE IF t = tCD THEN WeakEnglish
     ELSE IF t = tFra THEN MissingConfidence
     ELSE IF t = tErr THEN ReturnsNull
     ELSE IF t = tA THEN NoCandidates
     ELSE Undetermined]

\* thresholds small enough for texts of a few characters; the options left
\* out take their defaults
BaseOptions ==
  [targetLanguages |-> <<"eng">>,
   minTextLength |-> 3,
   minWordCount |-> 2,
   minAvgWordLength |-> Rat(1, 1),
   minLinesEndingWithPunctuation |-> Rat(0, 1),
   maxSymbolToWordRatio |-> Rat(1, 1),
   maxUppercaseRatio |-> Rat(1, 1)]

WithDedup(n, threshold) ==
  BaseOptions @@ [ngramSize |-> n, ngramOverlapThreshold |-> threshold]

OptionInputs ==
  {WithDedup(2, Rat(1, 2)), WithDedup(3, Rat(0, 1)), WithDedup(2, Rat(1, 1))}

\* the pipelines considered: the options given to the constructor and the
\* classifier the instance runs against
Setups ==
  {<<opts, ClassifierA>> : opts \in OptionInputs}
  \cup {<<WithDedup(2, Rat(1, 2)), ClassifierB>>}

\* processedDocuments is not let past MaxDocs
MaxDocs == 2

\* the batches given to processBatch: empty; a document and its repetition;
\* documents rejected at the three early stages before one that has further
\* fields, a pipeline field of its own among them; a null document
BatchInputs ==
  {<<>>,
   <<[filteredText |-> tABC], [filteredText |-> tABC]>>,
   <<[title |-> "untitled"], [filteredText |-> tA], [filteredText |-> tFra],
     [title |-> "kept", filteredText |-> tABD, pipeline |-> "stale"]>>,
   <<[text |-> tCD], NullDocument>>}

(* -------------------------------- state ------------------------------- *)

VARIABLES
  options,             \* this.options
  seenNGrams,          \* this.seenNGrams
  processedDocuments,  \* this.processedDocuments
  classify,            \* the behaviour of francAll, a function of the text
  batch,               \* the processBatch call in flight, suspended at its await
  last,                \* the most recent call: its name, argument and return value
  acceptedTexts,       \* history: the texts accepted since construction or reset
  acceptedCount,       \* history: how many documents were accepted since then
  crawl                \* the crawlRecursive call in flight: its locals and frames

vars == <<options, seenNGrams, processedDocuments, classify, batch, last,
          acceptedTexts, acceptedCount, crawl>>

Self ==
  [options |-> options, seenNGrams |-> seenNGrams,
   processedDocuments |-> processedDocuments]

Idle == [pc |-> "idle"]

\* no crawlRecursive call is in flight
NotCrawling == [pc |-> "idle"]

Init ==
  /\ \E setup \in Setups :
       LET self == Constructor(setup[1])
       IN  /\ options = self.options
           /\ seenNGrams = self.seenNGrams
           /\ processedDocuments = self.processedDocuments
           /\ classify = setup[2]
           /\ last = [op |-> "constructor", opts |-> setup[1]]
  /\ batch = Idle
  /\ acceptedTexts = {}
  /\ acceptedCount = 0
  /\ crawl = NotCrawling

\* the instance becomes self
Becomes(self) ==
  /\ options' = self.options
  /\ seenNGrams' = self.seenNGrams
  /\ processedDocuments' = self.processedDocuments

\* the history of accepted documents after a call of processDocument ended as out
Noted(out) ==
  IF ~out.threw /\ out.result.pipeline.passed
  THEN /\ acceptedTexts' = acceptedTexts \cup {ExtractText(out.result)}
       /\ acceptedCount' = acceptedCount + 1
  ELSE UNCHANGED <<acceptedTexts, acceptedCount>>

\* the record of a processDocument call in last: what it returned, or that it
\* threw.  cleared is history: the texts that had been accepted when reset was
\* called, if reset was the call just before this one
Called(document, out) ==
  [op |-> "processDocument", document |-> document, threw |-> out.threw,
   ret |-> out.result,
   cleared |-> IF last.op = "reset" THEN last.cleared ELSE {}]

\* await pipeline.processDocument(document), called directly
CallProcessDocument ==
  \E document \in Corpus :
    LET out == ProcessDocument(Self, document, classify)
    IN  /\ processedDocuments < MaxDocs
        /\ Becomes(out.self)
        /\ last' = Called(document, out)
        /\ Noted(out)
        /\ UNCHANGED <<classify, batch, crawl>>

\* pipeline.reset()
CallReset ==
  /\ Becomes(Reset(Self))
  /\ last' = [op |-> "reset", cleared |-> acceptedTexts]
  /\ acceptedTexts' = {}
  /\ acceptedCount' = 0
  /\ UNCHANGED <<classify, batch, crawl>>

\* pipeline.getStats()
CallGetStats ==
  /\ last' = [op |-> "getStats", ret |-> GetStats(Self)]
  /\ UNCHANGED <<options, seenNGrams, processedDocuments, classify, batch,
                 acceptedTexts, acceptedCount, crawl>>

\* pipeline.processBatch(documents) up to its first await: an empty batch
\* returns at once, any other runs processDocument on its first document
CallProcessBatch ==
  \E documents \in BatchInputs :
    /\ batch.pc = "idle"
    /\ processedDocuments < MaxDocs
    /\ IF Len(documents) = 0
       THEN /\ batch' = Idle
            /\ last' = [op |-> "processBatch", documents |-> documents,
                        threw |-> FALSE,
                        ret |-> BatchReturn(<<>>, InitialStats(documents))]
            /\ UNCHANGED <<options, seenNGrams, processedDocuments,
                           acceptedTexts, acceptedCount>>
       ELSE LET out == ProcessDocument(Self, documents[1], classify)
            IN  /\ Becomes(out.self)
                /\ batch' = [pc |-> "awaiting", documents |-> documents, i |-> 1,
                             results |-> <<>>, stats |-> InitialStats(documents),
                             threw |-> out.threw, result |-> out.result]
                /\ last' = Called(documents[1], out)
                /\ Noted(out)
    /\ UNCHANGED <<classify, crawl>>

\* processBatch resumed after its await.  If processDocument threw, the await
\* throws and processBatch ends with that error; otherwise the result is pushed
\* and tallied, then the next document is processed or the batch returns
ResumeProcessBatch ==
  /\ batch.pc = "awaiting"
  /\ LET results == Append(batch.results, batch.result)
         stats == Tally(batch.stats, batch.result)
     IN  IF batch.threw
         THEN /\ batch' = Idle
              /\ last' = [op |-> "processBatch", documents |-> batch.documents,
                          threw |-> TRUE, ret |-> batch.result]
              /\ UNCHANGED <<options, seenNGrams, processedDocuments,
                             acceptedTexts, acceptedCount>>
         ELSE IF batch.i < Len(batch.documents)
         THEN LET document == batch.documents[batch.i + 1]
                  out == ProcessDocument(Self, document, classify)
              IN  /\ processedDocuments < MaxDocs
                  /\ Becomes(out.self)
                  /\ batch' = [batch EXCEPT !.i = @ + 1, !.results = results,
                                            !.stats = stats, !.threw = out.threw,
                                            !.result = out.result]
                  /\ last' = Called(document, out)
                  /\ Noted(out)
         ELSE /\ batch' = Idle
              /\ last' = [op |-> "processBatch", documents |-> batch.documents,
                          threw |-> FALSE, ret |-> BatchReturn(results, stats)]
              /\ UNCHANGED <<options, seenNGrams, processedDocuments,
                             acceptedTexts, acceptedCount>>
  /\ UNCHANGED <<classify, crawl>>

\* pipeline.exportFiltered(results.results) on what processBatch just returned
CallExportFiltered ==
  /\ last.op = "processBatch"
  /\ ~last.threw
  /\ last' = [op |-> "exportFiltered", documents |-> last.documents,
              results |-> last.ret.results,
              ret |-> ExportFiltered(last.ret.results)]
  /\ UNCHANGED <<options, seenNGrams, processedDocuments, classify, batch,
                 acceptedTexts, acceptedCount, crawl>>

Next ==
  \/ CallProcessDocument
  \/ CallReset
  \/ CallGetStats
  \/ CallProcessBatch
  \/ ResumeProcessBatch
  \/ CallExportFiltered

Spec == Init /\ [][Next]_vars

(* ------------------- the methods called on their own ------------------ *)

\* the options given to the constructor here: none, the small thresholds with
\* n-grams of two and of three words (the latter also under the threshold 0
\* and with an option the pipeline does not know), a negative ngramSize with
\* a threshold above 1, and two target languages with a higher confidence
\* demanded
FunctionOptionInputs ==
  {<<>>,
   WithDedup(2, Rat(1, 2)),
   WithDedup(3, Rat(1, 2)),
   WithDedup(3, Rat(0, 1)) @@ [verbose |-> TRUE],
   WithDedup(-1, Rat(3, 2)),
   [targetLanguages |-> <<"eng", "fra">>, minLanguageConfidence |-> Rat(9, 10),
    minTextLength |-> 5, maxTextLength |-> 6, minWordCount |-> 3, ngramSize |-> 3]}

\* what francAll may return for a text
ClassifierOutputs ==
  {English, French, WeakEnglish, BarelyEnglish, Undetermined, NoCandidates,
   MissingConfidence, Throws, ReturnsNull,
   [kind |-> "list", languages |-> <<<<"fra", Rat(9, 10)>>>>],
   [kind |-> "list", languages |-> <<<<"deu", Rat(1, 1)>>, <<"eng", Rat(1, 1)>>>>],
   [kind |-> "list", languages |-> <<<<"eng", Rat(89, 100)>>, <<"und", Rat(1, 2)>>,
                                     <<"fra", Rat(1, 5)>>>>]}

\* the metric each quality flag reads and the option it is compared with
QualityRules ==
  <<[flag |-> "tooShort", metric |-> "textLength", option |-> "minTextLength"],
    [flag |-> "tooLong", metric |-> "textLength", option |-> "maxTextLength"],
    [flag |-> "tooFewWords", metric |-> "wordCount", option |-> "minWordCount"],
    [flag |-> "wordsTooShort", metric |-> "avgWordLength", option |-> "minAvgWordLength"],
    [flag |-> "wordsTooLong", metric |-> "avgWordLength", option |-> "maxAvgWordLength"],
    [flag |-> "insufficientPunctuation", metric |-> "linesEndingWithPunctuationRatio",
     option |-> "minLinesEndingWithPunctuation"],
    [flag |-> "tooManyBullets", metric |-> "bulletPointRatio",
     option |-> "maxBulletPointRatio"],
    [flag |-> "tooManyEllipsis", metric |-> "ellipsisLineRatio",
     option |-> "maxEllipsisLineRatio"],
    [flag |-> "tooManySymbols", metric |-> "symbolToWordRatio",
     option |-> "maxSymbolToWordRatio"],
    [flag |-> "tooManyDigits", metric |-> "digitRatio", option |-> "maxDigitRatio"],
    [flag |-> "tooManyUppercase", metric |-> "uppercaseRatio",
     option |-> "maxUppercaseRatio"],
    [flag |-> "insufficientVariety", metric |-> "uniqueWordsRatio",
     option |-> "minUniqueWordsRatio"]>>

\* metrics that sit on the thresholds of opts
AtThresholds(opts) ==
  [textLength |-> opts.minTextLength,
   wordCount |-> opts.minWordCount,
   uniqueWordCount |-> 1,
   lineCount |-> 1,
   avgWordLength |-> opts.minAvgWordLength,
   uniqueWordsRatio |-> opts.minUniqueWordsRatio,
   digitRatio |-> opts.maxDigitRatio,
   uppercaseRatio |-> opts.maxUppercaseRatio,
   symbolToWordRatio |-> opts.maxSymbolToWordRatio,
   linesEndingWithPunctuationRatio |-> opts.minLinesEndingWithPunctuation,
   bulletPointRatio |-> opts.maxBulletPointRatio,
   ellipsisLineRatio |-> opts.maxEllipsisLineRatio]

\* the value of an option moved by d small steps
Nudged(k, v, d) ==
  IF k \in IntOptions THEN v + d ELSE Rat(v.num * 10 + d, v.den * 10)

\* the metrics given to applyQualityFilters: those of the texts, and the
\* thresholds with one metric just under, on or just over one of them
MetricInputs(opts) ==
  {CalculateMetrics(t) : t \in Texts \ {tNumber}}
  \cup {[AtThresholds(opts) EXCEPT
           ![QualityRules[r].metric] =
              Nudged(QualityRules[r].option, opts[QualityRules[r].option], d)] :
         r \in DOMAIN QualityRules, d \in {-1, 0, 1}}

\* the texts given to generateNGrams: those of the documents, a longer one,
\* the words of tABC in other case and with other whitespace, and the same
\* words with a full stop after the second
NGramTexts ==
  (Texts \ {tNumber})
  \cup {<<"a", " ", "b", "\n", "A", " ", " ", "b", " ", "c">>, <<" ", "a", " ">>,
        <<"A", "\n", "\n", "b", " ", "c", " ">>,
        <<"a", " ", "b", ".", " ", "c">>}

\* the sizes given to generateNGrams are 1..MaxNGramSize
MaxNGramSize == 4

InitFunctions ==
  /\ \E opts \in FunctionOptionInputs :
       LET self == Constructor(opts)
       IN  /\ options = self.options
           /\ seenNGrams = self.seenNGrams
           /\ processedDocuments = self.processedDocuments
           /\ last = [op |-> "constructor", opts |-> opts]
  /\ classify = ClassifierA
  /\ batch = Idle
  /\ acceptedTexts = {}
  /\ acceptedCount = 0
  /\ crawl = NotCrawling

\* pipeline.identifyLanguage(text) where francAll behaves as out
CallIdentifyLanguage ==
  \E out \in ClassifierOutputs :
    /\ last' = [op |-> "identifyLanguage", out |-> out,
                ret |-> IdentifyLanguage(Self, tABC, [t \in {tABC} |-> out])]
    /\ UNCHANGED <<options, seenNGrams, processedDocuments, classify, batch,
                   acceptedTexts, acceptedCount, crawl>>

\* pipeline.applyQualityFilters(text, metrics)
CallApplyQualityFilters ==
  \E metrics \in MetricInputs(options) :
    /\ last' = [op |-> "applyQualityFilters", metrics |-> metrics,
                ret |-> ApplyQualityFilters(Self, <<>>, metrics)]
    /\ UNCHANGED <<options, seenNGrams, processedDocuments, classify, batch,
                   acceptedTexts, acceptedCount, crawl>>

\* pipeline.generateNGrams(text, n)
CallGenerateNGrams ==
  \E text \in NGramTexts, n \in 1..MaxNGramSize :
    /\ last' = [op |-> "generateNGrams", text |-> text, n |-> n,
                ret |-> GenerateNGrams(Self, text, n)]
    /\ UNCHANGED <<options, seenNGrams, processedDocuments, classify, batch,
                   acceptedTexts, acceptedCount, crawl>>

\* the strings given to calculateMetrics
MetricTexts ==
  NGramTexts
  \cup {<<"A", "b", ".", "\n", "-", " ", "D", ".", ".">>, <<"1", "!", "\n", "\n", "*">>}

\* pipeline.calculateMetrics(text)
CallCalculateMetrics ==
  \E text \in MetricTexts :
    /\ last' = [op |-> "calculateMetrics", text |-> text,
                ret |-> CalculateMetrics(text)]
    /\ UNCHANGED <<options, seenNGrams, processedDocuments, classify, batch,
                   acceptedTexts, acceptedCount, crawl>>

\* a checkDuplicates that records what it checks: addNGrams(text) at its end
CallCheckDuplicatesRecording ==
  \E text \in NGramTexts :
    /\ last' = [op |-> "checkDuplicates", text |-> text,
                ret |-> CheckDuplicates(Self, text)]
    /\ seenNGrams' = AddNGrams(Self, text).seenNGrams
    /\ UNCHANGED <<options, processedDocuments, classify, batch,
                   acceptedTexts, acceptedCount, crawl>>

\* pipeline.checkDuplicates(text)
CallCheckDuplicates ==
  \E text \in NGramTexts :
    /\ last' = [op |-> "checkDuplicates", text |-> text,
                ret |-> CheckDuplicates(Self, text)]
    /\ UNCHANGED <<options, seenNGrams, processedDocuments, classify, batch,
                   acceptedTexts, acceptedCount, crawl>>

\* pipeline.exportFiltered([result]) on what processDocument just returned
CallExportFilteredOne ==
  /\ last.op = "processDocument"
  /\ ~last.threw
  /\ last' = [op |-> "exportFiltered", results |-> <<last.ret>>,
              ret |-> ExportFiltered(<<last.ret>>)]
  /\ UNCHANGED <<options, seenNGrams, processedDocuments, classify, batch,
                 acceptedTexts, acceptedCount, crawl>>

NextFunctions ==
  \/ CallIdentifyLanguage
  \/ CallCalculateMetrics
  \/ CallApplyQualityFilters
  \/ CallGenerateNGrams
  \/ CallProcessDocument
  \/ CallCheckDuplicates
  \/ CallGetStats
  \/ CallExportFilteredOne
  \/ CallReset

SpecFunctions == InitFunctions /\ [][NextFunctions]_vars

(* ----------------------- batches one after another -------------------- *)

\* the batches given to processBatch one after another
SequenceInputs ==
  {<<>>,
   <<[filteredText |-> tABC]>>,
   <<[filteredText |-> tABD], [filteredText |-> tABC]>>,
   <<[filteredText |-> tA], [filteredText |-> tABD]>>,
   <<[filteredText |-> tDDD], [filteredText |-> tFra], [filteredText |-> tABC]>>,
   <<[text |-> tCD], NullDocument>>}

\* how many of the results passed
PassedCount(results) ==
  Cardinality({i \in DOMAIN results : results[i].pipeline.passed})

\* the texts of the results that passed
PassedTexts(results) ==
  {ExtractText(results[i]) : i \in {j \in DOMAIN results : results[j].pipeline.passed}}

\* await pipeline.processBatch(documents), nothing else called meanwhile.
\* History in last: before is the instance the call started from, and earlier
\* is the processBatch call just before this one, if that was the call before
CallWholeProcessBatch ==
  \E documents \in SequenceInputs :
    LET out == ProcessBatch(Self, documents, classify)
    IN  /\ processedDocuments < MaxDocs
        /\ Becomes(out.self)
        /\ last' = [op |-> "processBatch", documents |-> documents,
                    threw |-> out.threw, ret |-> out.ret, before |-> Self,
                    earlier |-> IF last.op = "processBatch"
                                THEN <<[documents |-> last.documents,
                                        threw |-> last.threw, ret |-> last.ret,
                                        before |-> last.before]>>
                                ELSE <<>>]
        /\ acceptedTexts' = acceptedTexts \cup PassedTexts(out.done)
        /\ acceptedCount' = acceptedCount + PassedCount(out.done)
        /\ UNCHANGED <<classify, batch, crawl>>

NextBatches ==
  \/ CallWholeProcessBatch
  \/ CallReset

SpecBatches == Init /\ [][NextBatches]_vars

(* ---------------------- calls that are not awaited -------------------- *)

\* the documents processDocument is invoked for without awaiting: a document
\* twice, documents sharing a window, a null document between others
UnawaitedInputs ==
  {<<>>,
   <<[filteredText |-> tABC]>>,
   <<[filteredText |-> tABC], [filteredText |-> tABC]>>,
   <<[filteredText |-> tABD], [filteredText |-> tABC]>>,
   <<[filteredText |-> tABC], [filteredText |-> tABD], [filteredText |-> tABC]>>,
   <<[text |-> tCD], NullDocument, [filteredText |-> tABC]>>,
   <<[filteredText |-> tA], [filteredText |-> tFra], [filteredText |-> tDDD]>>}

\* the promises that were fulfilled with an accepted document
AcceptedPromises(promises) ==
  {i \in DOMAIN promises : ~promises[i].rejected /\ promises[i].value.pipeline.passed}

\* Promise.allSettled(documents.map(d => pipeline.processDocument(d))).
\* History in last: before is the instance the invocations started from
CallProcessDocumentsUnawaited ==
  \E documents \in UnawaitedInputs :
    LET out == InvokeAll(Self, documents, classify)
        accepted == AcceptedPromises(out.promises)
    IN  /\ processedDocuments < MaxDocs
        /\ Becomes(out.self)
        /\ last' = [op |-> "processDocuments", documents |-> documents,
                    promises |-> out.promises, before |-> Self]
        /\ acceptedTexts' = acceptedTexts \cup {ExtractText(documents[i]) : i \in accepted}
        /\ acceptedCount' = acceptedCount + Cardinality(accepted)
        /\ UNCHANGED <<classify, batch, crawl>>

NextUnawaited ==
  \/ CallProcessDocumentsUnawaited
  \/ CallReset

SpecUnawaited == Init /\ [][NextUnawaited]_vars

(* -------------------- two processBatch calls in flight ----------------- *)

\* the two calls of processBatch that may be in flight together
Slots == {1, 2}

\* the batches given to the two calls: documents sharing windows across the
\* batches, a batch of one, a null document after and before another document,
\* and the empty batch
InFlightInputs ==
  {<<>>,
   <<[filteredText |-> tABC], [filteredText |-> tABD]>>,
   <<[filteredText |-> tABD]>>,
   <<[text |-> tCD], NullDocument>>,
   <<NullDocument, [filteredText |-> tABC]>>}

\* reset() is called at most this often while batches are in flight
MaxResets == 1

\* processBatch has returned ret, or has thrown it
Returned(documents, threw, ret) ==
  [pc |-> "returned", documents |-> documents, threw |-> threw, ret |-> ret]

\* the operations on the instance in the order they ran
Logged(entry) == [last EXCEPT !.log = Append(@, entry)]

\* the entry of a processDocument call made by the processBatch call b
DocumentEntry(b, document, out) ==
  [op |-> "processDocument", slot |-> b, document |-> document,
   threw |-> out.threw, ret |-> out.result]

IsReset(entry) == entry.op = "reset"

InitInFlight ==
  /\ \E setup \in Setups :
       LET self == Constructor(setup[1])
       IN  /\ options = self.options
           /\ seenNGrams = self.seenNGrams
           /\ processedDocuments = self.processedDocuments
           /\ classify = setup[2]
           /\ last = [op |-> "inFlight", opts |-> setup[1], log |-> <<>>]
  /\ batch = [b \in Slots |-> Idle]
  /\ acceptedTexts = {}
  /\ acceptedCount = 0
  /\ crawl = NotCrawling

\* pipeline.processBatch(documents) up to its first await, the second call
\* made after the first: an empty batch returns at once, any other runs
\* processDocument on its first document and suspends
CallProcessBatchInFlight ==
  \E b \in Slots, documents \in InFlightInputs :
    /\ batch[b].pc = "idle"
    /\ b = 1 \/ batch[1].pc # "idle"
    /\ IF Len(documents) = 0
       THEN /\ batch' = [batch EXCEPT ![b] =
                           Returned(documents, FALSE,
                                    BatchReturn(<<>>, InitialStats(documents)))]
            /\ UNCHANGED <<options, seenNGrams, processedDocuments, last,
                           acceptedTexts, acceptedCount>>
       ELSE LET out == ProcessDocument(Self, documents[1], classify)
            IN  /\ Becomes(out.self)
                /\ batch' = [batch EXCEPT ![b] =
                               [pc |-> "awaiting", documents |-> documents, i |-> 1,
                                results |-> <<>>, stats |-> InitialStats(documents),
                                threw |-> out.threw, result |-> out.result]]
                /\ last' = Logged(DocumentEntry(b, documents[1], out))
                /\ Noted(out)
    /\ UNCHANGED <<classify, crawl>>

\* one of the calls in flight resumed after its await: the await throws what
\* processDocument threw, or the result is pushed and tallied and the next
\* document is processed or the batch returns
ResumeProcessBatchInFlight ==
  \E b \in Slots :
    /\ batch[b].pc = "awaiting"
    /\ LET frame == batch[b]
           results == Append(frame.results, frame.result)
           stats == Tally(frame.stats, frame.result)
       IN  IF frame.threw
           THEN /\ batch' = [batch EXCEPT ![b] =
                               Returned(frame.documents, TRUE, frame.result)]
                /\ UNCHANGED <<options, seenNGrams, processedDocuments, last,
                               acceptedTexts, acceptedCount>>
           ELSE IF frame.i < Len(frame.documents)
           THEN LET document == frame.documents[frame.i + 1]
                    out == ProcessDocument(Self, document, classify)
                IN  /\ Becomes(out.self)
                    /\ batch' = [batch EXCEPT ![b] =
                                   [frame EXCEPT !.i = @ + 1, !.results = results,
                                                 !.stats = stats, !.threw = out.threw,
                                                 !.result = out.result]]
                    /\ last' = Logged(DocumentEntry(b, document, out))
                    /\ Noted(out)
           ELSE /\ batch' = [batch EXCEPT ![b] =
                               Returned(frame.documents, FALSE,
                                        BatchReturn(results, stats))]
                /\ UNCHANGED <<options, seenNGrams, processedDocuments, last,
                               acceptedTexts, acceptedCount>>
    /\ UNCHANGED <<classify, crawl>>

\* pipeline.reset() called while a batch is in flight
CallResetInFlight ==
  /\ \E b \in Slots : batch[b].pc = "awaiting"
  /\ Len(SelectSeq(last.log, IsReset)) < MaxResets
  /\ Becomes(Reset(Self))
  /\ last' = Logged([op |-> "reset"])
  /\ acceptedTexts' = {}
  /\ acceptedCount' = 0
  /\ UNCHANGED <<classify, batch, crawl>>

NextInFlight ==
  \/ CallProcessBatchInFlight
  \/ ResumeProcessBatchInFlight
  \/ CallResetInFlight

SpecInFlight == InitInFlight /\ [][NextInFlight]_vars

(* ------------------- WikipediaCrawler.crawlRecursive ------------------ *)

\* the pages of the web crawled here
Urls == {"A", "B", "C", "D", "E", "F", "G"}

\* a web: the links getWikipediaLinks extracts from each page, in page order,
\* the pages on which crawlPage throws, and the pages on which the link
\* extraction fails (getWikipediaLinks then returns [])
WebWithCycles ==
  [links |-> [u \in Urls |->
                CASE u = "A" -> <<"B", "A", "C", "D", "E", "F", "G">>
                  [] u = "B" -> <<"C", "A">>
                  [] u = "C" -> <<"D">>
                  [] u = "D" -> <<"E">>
                  [] u = "E" -> <<"F">>
                  [] u = "F" -> <<"G">>
                  [] OTHER -> <<>>],
   fails |-> {},
   nolinks |-> {}]

\* A links to six other pages before itself; crawlPage throws on C and the
\* link extraction fails on E
WebWithFailures ==
  [WebWithCycles EXCEPT !.links["A"] = <<"B", "C", "D", "E", "F", "G", "A">>,
                        !.fails = {"C"}, !.nolinks = {"E"}]

Webs == {WebWithCycles, WebWithFailures}

StartUrls == {"A", "B"}

\* the maxPages given are 0..MaxPagesInput, the maxDepth given 0..MaxDepthInput
MaxPagesInput == 4

MaxDepthInput == 2

\* the options argument of crawlRecursive: each of maxPages and maxDepth
\* given or left out
CrawlOptionInputs ==
  {[maxPages |-> p, maxDepth |-> d] : p \in 0..MaxPagesInput, d \in 0..MaxDepthInput}
  \cup {[maxPages |-> p] : p \in 0..MaxPagesInput}
  \cup {[maxDepth |-> d] : d \in 0..MaxDepthInput}
  \cup {<<>>}

\* opts.k || fallback, of a numeric option
OrDefault(opts, k, fallback) ==
  IF k \in DOMAIN opts /\ opts[k] # 0 THEN opts[k] ELSE fallback

Min(a, b) == IF a < b THEN a ELSE b

\* Set.prototype.has that finds nothing
HasNothing(visited, url) == FALSE

\* Set.prototype.has and Set.prototype.add, the Set kept in insertion order
Has(visited, url) == \E i \in DOMAIN visited : visited[i] = url

Add(visited, url) == IF Has(visited, url) THEN visited ELSE Append(visited, url)

\* what crawlPage returns for a page
PageData(url) == [title |-> <<"Title of", url>>, url |-> url]

\* a node of linkTree, found by its path from the root: the places of its
\* ancestors and of itself among the children of their parents
TreeNode(path, url, depth) ==
  [path |-> path, url |-> url, title |-> <<>>, depth |-> depth]

\* node.children, in order
Children(linkTree, path) ==
  {node \in linkTree : Len(node.path) = Len(path) + 1
                       /\ SubSeq(node.path, 1, Len(path)) = path}

\* a call of crawlHelper(url, depth, parentNode) about to run
Frame(url, depth, node) ==
  [pc |-> "enter", url |-> url, depth |-> depth, node |-> node,
   linksToFollow |-> <<>>, i |-> 0]

\* lines 170-175 and the call of line 224: the locals of crawlRecursive and
\* the first call of crawlHelper.  crawls is history: the calls of crawlPage
StartCrawl(web, startUrl, opts) ==
  [pc |-> "running",
   web |-> web,
   startUrl |-> startUrl,
   options |-> opts,
   maxPages |-> OrDefault(opts, "maxPages", 100),
   maxDepth |-> OrDefault(opts, "maxDepth", 3),
   visited |-> <<>>,
   crawledData |-> <<>>,
   linkTree |-> {TreeNode(<<>>, startUrl, 0)},
   stack |-> <<Frame(startUrl, 0, <<>>)>>,
   crawls |-> <<>>]

\* the crawlHelper call that is running, and the crawl with that call
\* returned to its caller or changed to frame
Top(c) == c.stack[Len(c.stack)]

Pop(c) == [c EXCEPT !.stack = SubSeq(@, 1, Len(@) - 1)]

SetTop(c, frame) == [c EXCEPT !.stack[Len(c.stack)] = frame]

\* line 179
ReachedLimits(c, url, depth) ==
  \/ Len(c.visited) >= c.maxPages
  \/ depth > c.maxDepth
  \/ Has(c.visited, url)

\* lines 179-187: crawlHelper returns at once, or adds the url to visited and
\* calls crawlPage
EnterHelper(c) ==
  LET frame == Top(c)
  IN  IF ReachedLimits(c, frame.url, frame.depth)
      THEN Pop(c)
      ELSE [SetTop(c, [frame EXCEPT !.pc = "crawlPage"]) EXCEPT
              !.visited = Add(@, frame.url),
              !.crawls = Append(@, [url |-> frame.url, depth |-> frame.depth])]

\* lines 188-197: crawlPage returned pageData
PageCrawled(c) ==
  LET frame == Top(c)
      pageData == PageData(frame.url)
      titled == {IF node.path = frame.node
                 THEN [node EXCEPT !.title = pageData.title] ELSE node :
                 node \in c.linkTree}
      next == [c EXCEPT !.crawledData = Append(@, pageData), !.linkTree = titled]
  IN  IF frame.depth < c.maxDepth /\ Len(c.visited) < c.maxPages
      THEN SetTop(next, [frame EXCEPT !.pc = "links"])
      ELSE Pop(next)

\* lines 219-221: crawlPage threw, the error is logged and crawlHelper returns
PageFailed(c) == Pop(c)

\* the links followed without the cap of 5: links.slice(0, maxPages - visited.size)
LinksExtractedUncapped(c, links) ==
  LET frame == Top(c)
      linksToFollow == Slice(links, 0, c.maxPages - Len(c.visited))
  IN  SetTop(c, [frame EXCEPT !.pc = "loop", !.linksToFollow = linksToFollow,
                              !.i = 1])

\* lines 197-200: getWikipediaLinks returned links
LinksExtracted(c, links) ==
  LET frame == Top(c)
      linksToFollow == Slice(links, 0, Min(5, c.maxPages - Len(c.visited)))
  IN  SetTop(c, [frame EXCEPT !.pc = "loop", !.linksToFollow = linksToFollow,
                              !.i = 1])

\* the loop over linksToFollow as a while loop whose `continue` skips the
\* increment: a link already visited is looked at again and again
FollowNextWithoutAdvancing(c) ==
  LET frame == Top(c)
      link == frame.linksToFollow[frame.i]
      childPath == Append(frame.node,
                          Cardinality(Children(c.linkTree, frame.node)) + 1)
      childNode == TreeNode(childPath, link, frame.depth + 1)
      onward == [frame EXCEPT !.i = @ + 1]
  IN  IF frame.i > Len(frame.linksToFollow) THEN Pop(c)
      ELSE IF Len(c.visited) >= c.maxPages THEN Pop(c)
      ELSE IF Has(c.visited, link) THEN c
      ELSE [SetTop(c, onward) EXCEPT
              !.linkTree = @ \cup {childNode},
              !.stack = Append(@, Frame(link, frame.depth + 1, childPath))]

\* lines 202-217: one turn of the loop over linksToFollow, up to the call of
\* crawlHelper for the link; the loop goes on when that call has returned and
\* the delay has passed
FollowNext(c) ==
  LET frame == Top(c)
      link == frame.linksToFollow[frame.i]
      childPath == Append(frame.node,
                          Cardinality(Children(c.linkTree, frame.node)) + 1)
      childNode == TreeNode(childPath, link, frame.depth + 1)
      onward == [frame EXCEPT !.i = @ + 1]
  IN  IF frame.i > Len(frame.linksToFollow) THEN Pop(c)
      ELSE IF Len(c.visited) >= c.maxPages THEN Pop(c)
      ELSE IF Has(c.visited, link) THEN SetTop(c, onward)
      ELSE [SetTop(c, onward) EXCEPT
              !.linkTree = @ \cup {childNode},
              !.stack = Append(@, Frame(link, frame.depth + 1, childPath))]

\* lines 226-231
CrawlResult(c) ==
  [crawledData |-> c.crawledData,
   linkTree |-> c.linkTree,
   totalPages |-> Len(c.visited),
   visitedUrls |-> c.visited]

\* await this.crawlPage(url): the page data returned, or the error thrown
CrawlPage(web, url) ==
  IF url \in web.fails
  THEN [threw |-> TRUE, error |-> [message |-> <<"cannot crawl", url>>]]
  ELSE [threw |-> FALSE, value |-> PageData(url)]

\* the entry crawlMultiple pushes for a url whose crawl threw
FailedEntry(url, error) ==
  [url |-> url, error |-> error.message, timestamp |-> "now"]

\* crawlMultiple without its catch block pushing an entry: a url whose crawl
\* fails leaves no entry
RECURSIVE CrawlMultipleSkippingFailures(_, _)
CrawlMultipleSkippingFailures(web, urls) ==
  IF urls = <<>> THEN [threw |-> FALSE, ret |-> <<>>]
  ELSE LET page == CrawlPage(web, Head(urls))
           rest == CrawlMultipleSkippingFailures(web, Tail(urls))
       IN  [rest EXCEPT !.ret = IF page.threw THEN @ ELSE <<page.value>> \o @]

\* crawlMultiple(urls): for each url in turn the page data, or the entry of
\* its failure; nothing thrown by crawlPage leaves the try block
RECURSIVE CrawlMultiple(_, _)
CrawlMultiple(web, urls) ==
  IF urls = <<>> THEN [threw |-> FALSE, ret |-> <<>>]
  ELSE LET page == CrawlPage(web, Head(urls))
           rest == CrawlMultiple(web, Tail(urls))
           entry == IF page.threw THEN FailedEntry(Head(urls), page.error)
                    ELSE page.value
       IN  [rest EXCEPT !.ret = <<entry>> \o @]

\* the lists of urls given to crawlMultiple
UrlListInputs ==
  {<<>>, <<"A">>, <<"C">>, <<"B", "C", "D">>, <<"C", "C", "A">>, <<"A", "B", "A">>}

PipelineUnchanged ==
  UNCHANGED <<options, seenNGrams, processedDocuments, classify, batch,
              acceptedTexts, acceptedCount>>

Crawling == crawl.pc = "running" /\ crawl.stack # <<>>

\* the crawler of the pipeline example, no crawl begun
InitCrawler ==
  /\ InitFunctions
  /\ options = Constructor(<<>>).options

\* crawler.crawlRecursive(startUrl, opts) is called.  History in last: the
\* call and, once it has returned, its result and the crawlPage calls it made
CallCrawlRecursive ==
  \E web \in Webs, startUrl \in StartUrls, opts \in CrawlOptionInputs :
    /\ crawl.pc = "idle"
    /\ crawl' = StartCrawl(web, startUrl, opts)
    /\ last' = [op |-> "crawlRecursive", web |-> web, startUrl |-> startUrl,
                options |-> opts, returned |-> FALSE]
    /\ PipelineUnchanged

EnterCrawlHelper ==
  /\ Crawling
  /\ Top(crawl).pc = "enter"
  /\ crawl' = EnterHelper(crawl)
  /\ UNCHANGED last
  /\ PipelineUnchanged

CrawlPageReturns ==
  /\ Crawling
  /\ Top(crawl).pc = "crawlPage"
  /\ Top(crawl).url \notin crawl.web.fails
  /\ crawl' = PageCrawled(crawl)
  /\ UNCHANGED last
  /\ PipelineUnchanged

CrawlPageThrows ==
  /\ Crawling
  /\ Top(crawl).pc = "crawlPage"
  /\ Top(crawl).url \in crawl.web.fails
  /\ crawl' = PageFailed(crawl)
  /\ UNCHANGED last
  /\ PipelineUnchanged

\* getWikipediaLinks returns the links of the page, or [] when it failed
GetWikipediaLinksReturns ==
  /\ Crawling
  /\ Top(crawl).pc = "links"
  /\ LET url == Top(crawl).url
         links == IF url \in crawl.web.nolinks THEN <<>> ELSE crawl.web.links[url]
     IN  crawl' = LinksExtracted(crawl, links)
  /\ UNCHANGED last
  /\ PipelineUnchanged

FollowLinks ==
  /\ Crawling
  /\ Top(crawl).pc = "loop"
  /\ crawl' = FollowNext(crawl)
  /\ UNCHANGED last
  /\ PipelineUnchanged

\* the first crawlHelper call has returned: crawlRecursive returns its result
ReturnCrawlRecursive ==
  /\ crawl.pc = "running"
  /\ crawl.stack = <<>>
  /\ last' = [op |-> "crawlRecursive", web |-> crawl.web,
              startUrl |-> crawl.startUrl,
              options |-> crawl.options, returned |-> TRUE,
              crawls |-> crawl.crawls, ret |-> CrawlResult(crawl)]
  /\ crawl' = NotCrawling
  /\ PipelineUnchanged

\* await crawler.crawlMultiple(urls)
CallCrawlMultiple ==
  \E web \in Webs, urls \in UrlListInputs :
    LET out == CrawlMultiple(web, urls)
    IN  /\ crawl.pc = "idle"
        /\ last' = [op |-> "crawlMultiple", web |-> web, urls |-> urls,
                    threw |-> out.threw, ret |-> out.ret]
        /\ UNCHANGED crawl
        /\ PipelineUnchanged

NextCrawler ==
  \/ CallCrawlRecursive
  \/ CallCrawlMultiple
  \/ EnterCrawlHelper
  \/ CrawlPageReturns
  \/ CrawlPageThrows
  \/ GetWikipediaLinksReturns
  \/ FollowLinks
  \/ ReturnCrawlRecursive

SpecCrawler == InitCrawler /\ [][NextCrawler]_vars

\* a step of a crawlRecursive call in flight: the continuation of an await
\* whose promise has settled
CrawlStep ==
  \/ EnterCrawlHelper
  \/ CrawlPageReturns
  \/ CrawlPageThrows
  \/ GetWikipediaLinksReturns
  \/ FollowLinks
  \/ ReturnCrawlRecursive

\* the crawler where every crawlPage, getWikipediaLinks and delay promise
\* settles and the event loop then runs the continuation
SpecCrawlerLive == InitCrawler /\ [][NextCrawler]_vars /\ WF_vars(CrawlStep)

(* ------------------------------- claims ------------------------------- *)

\* What the claims speak of, stated without the code's operators: the
\* lowercased words of a text, its n-word windows in order, and how many of
\* the windows have their key in a set.
WordsOf(text) == SelectSeq(SplitWs(ToLowerCase(text)), NonEmpty)

Windows(text, n) ==
  LET words == WordsOf(text)
  IN  [i \in 1..(Len(words) - n + 1) |-> Join(SubSeq(words, i, i + n - 1), <<" ">>)]

WindowKeys(text, n) == Range(Windows(text, n))

WindowsIn(text, n, keys) ==
  LET windows == Windows(text, n)
  IN  Cardinality({i \in DOMAIN windows : windows[i] \in keys})

\* last is a call of processDocument that returned; its text, verdict, flags
\* and metrics
IsCall == last.op = "processDocument" /\ ~last.threw

CallText == ExtractText(last.document)

Passed == last.ret.pipeline.passed

Flags == last.ret.pipeline.filters

Measured == last.ret.pipeline.metrics

Flagged(f) == f \in DOMAIN Flags /\ Flags[f]

ReachedDedup == IsCall /\ "ngramDuplication" \in DOMAIN Measured

Dedup == Measured.ngramDuplication

AllFlagNames == {"language", "duplicate"} \cup QualityFilterNames

PassedEveryStage == DOMAIN Flags = AllFlagNames /\ \A f \in AllFlagNames : ~Flags[f]

DedupStateUnchanged == UNCHANGED <<seenNGrams, processedDocuments>>

\* C1: a call of processDocument that rejects its document leaves seenNGrams
\* and processedDocuments as they were, and n-grams are inserted only by a
\* call that returns passed with every flag false.
C1_RejectionLeavesDedupState ==
  [][/\ (IsCall' /\ ~Passed') => DedupStateUnchanged
     /\ ~(seenNGrams' \subseteq seenNGrams) => (IsCall' /\ Passed' /\ PassedEveryStage')
    ]_vars

\* a duplicate was rejected while the set held n-grams
C1_Witness ==
  IsCall /\ ~Passed /\ Flagged("duplicate") /\ seenNGrams # {} /\ processedDocuments > 0

\* C2: processedDocuments is the number of documents accepted since
\* construction or the last reset, seenNGrams is the union of their window
\* keys, and getStats reports that number and the size of that union.
C2_StateIsTheAcceptedDocuments ==
  LET keys == UNION {WindowKeys(t, options.ngramSize) : t \in acceptedTexts}
  IN  /\ processedDocuments = acceptedCount
      /\ seenNGrams = keys
      /\ last.op = "getStats" =>
           /\ last.ret.processedDocuments = acceptedCount
           /\ last.ret.uniqueNGrams = Cardinality(keys)

\* getStats after two documents were accepted that have four windows and
\* three keys between them
C2_Witness ==
  /\ last.op = "getStats"
  /\ last.ret.processedDocuments = 2
  /\ last.ret.uniqueNGrams = 3
  /\ Cardinality(acceptedTexts) = 2
  /\ \A t \in acceptedTexts : Len(Windows(t, options.ngramSize)) = 2

\* C3: every operation other than reset leaves seenNGrams a superset of what
\* it was and does not decrease processedDocuments.
C3_DedupStateOnlyGrows ==
  [][last'.op # "reset" =>
       (seenNGrams \subseteq seenNGrams' /\ processedDocuments <= processedDocuments')
    ]_vars

\* a second document was accepted into a set that held the first one's keys
C3_Witness ==
  IsCall /\ Passed /\ processedDocuments = 2 /\ Cardinality(seenNGrams) >= 3

\* C4: the stages run in the order language, quality, dedup and the call
\* stops at the first that fails: a text that fails language identification
\* gets the language flag and the language result only; one that passes it
\* and fails a quality check gets the language and the twelve quality flags
\* and the text metrics, and no duplicate flag or ngramDuplication metric;
\* the duplicate check is made only after language and all twelve quality
\* checks passed.
C4_StagesInOrder ==
  (IsCall /\ CallText # <<>>) =>
    LET languageFails == ~IdentifyLanguage(Self, CallText, classify).passed
        qualityFails == SomeTrue(ApplyQualityFilters(Self, CallText, CalculateMetrics(CallText)))
    IN  /\ languageFails =>
             /\ ~Passed
             /\ Flags = ("language" :> TRUE)
             /\ DOMAIN Measured = {"language"}
        /\ (~languageFails /\ qualityFails) =>
             /\ ~Passed
             /\ DOMAIN Flags = {"language"} \cup QualityFilterNames
             /\ ~Flags["language"]
             /\ \E q \in QualityFilterNames : Flags[q]
             /\ DOMAIN Measured = {"language"} \cup MetricNames
        /\ ("duplicate" \in DOMAIN Flags \/ "ngramDuplication" \in DOMAIN Measured) =>
             /\ ~languageFails /\ ~qualityFails
             /\ DOMAIN Flags = AllFlagNames
             /\ \A q \in QualityFilterNames \cup {"language"} : ~Flags[q]
             /\ DOMAIN Measured = {"language", "ngramDuplication"} \cup MetricNames
        /\ Passed => PassedEveryStage

\* a text that fails language identification and would fail a quality check
\* was rejected for its language alone
C4_Witness ==
  /\ IsCall
  /\ Flagged("language")
  /\ SomeTrue(ApplyQualityFilters(Self, CallText, CalculateMetrics(CallText)))

C6_SharedWindowsAreCounted ==
  [][ReachedDedup' =>
       \A d1 \in acceptedTexts :
         LET shared == WindowsIn(CallText', options.ngramSize,
                                 WindowKeys(d1, options.ngramSize))
         IN  shared > 0 =>
               /\ "duplicateNGrams" \in DOMAIN Dedup'
               /\ Dedup'.duplicateNGrams >= shared
    ]_vars

\* a document sharing one of its two windows with an accepted one was
\* accepted with that window counted
C6_Witness ==
  /\ ReachedDedup
  /\ Passed
  /\ "duplicateNGrams" \in DOMAIN Dedup
  /\ Dedup.duplicateNGrams = 1
  /\ Cardinality(acceptedTexts) = 2

\* C7: a document of at least ngramSize words that was accepted and is
\* submitted again with no reset in between has overlapRatio 1, is rejected
\* with duplicate = true, and leaves the dedup state unchanged.
C7_ResubmissionIsDuplicate ==
  [][(/\ IsCall'
      /\ CallText' \in acceptedTexts
      /\ Len(WordsOf(CallText')) >= options.ngramSize) =>
       /\ ReachedDedup'
       /\ EqR(Dedup'.overlapRatio, Rat(1, 1))
       /\ ~Passed'
       /\ Flags'["duplicate"] = TRUE
       /\ DedupStateUnchanged
    ]_vars

\* under the threshold 1 an accepted document was submitted again and rejected
C7_Witness ==
  /\ ReachedDedup
  /\ CallText \in acceptedTexts
  /\ Flagged("duplicate")
  /\ options.ngramOverlapThreshold = Rat(1, 1)

\* C8: a document that had been accepted when reset was called, submitted
\* right after the reset, reaches the dedup stage with overlapRatio 0, passes
\* it, is accepted and is committed again.
C8_ResetClearsState ==
  [][(IsCall' /\ last.op = "reset" /\ CallText' \in last.cleared) =>
       /\ ReachedDedup'
       /\ EqR(Dedup'.overlapRatio, Zero)
       /\ Dedup'.passed
       /\ ~Flags'["duplicate"]
       /\ Passed'
       /\ processedDocuments' = 1
       /\ seenNGrams' = WindowKeys(CallText', options.ngramSize)
    ]_vars

\* a document with n-grams, accepted before the reset, was accepted after it
C8_Witness ==
  IsCall /\ CallText \in last.cleared /\ Passed /\ seenNGrams # {}

\* C9: reset leaves seenNGrams empty and processedDocuments 0 in the same
\* step, and no operation changes the options.
C9_ResetIsWholeAndOptionsFixed ==
  [][/\ options' = options
     /\ last'.op = "reset" => (seenNGrams' = {} /\ processedDocuments' = 0)
    ]_vars

\* reset was called on an instance that had accepted documents
C9_Witness ==
  last.op = "reset" /\ last.cleared # {} /\ seenNGrams = {} /\ processedDocuments = 0

\* C10: a document whose text is empty or whitespace-only is rejected with
\* emptyText = true as its only flag and without metrics, and the dedup state
\* stays as it was.
C10_BlankTextIsEmptyText ==
  [][(IsCall' /\ Trim(CallText') = <<>>) =>
       /\ ~Passed'
       /\ Flags' = ("emptyText" :> TRUE)
       /\ DOMAIN Measured' = {}
       /\ DedupStateUnchanged
    ]_vars

\* C11: processDocument never throws on malformed or empty input: for a
\* document without a text field, with an empty text, with a text that is not
\* a string, and for a null document, the call returns a result whose
\* pipeline.passed is false.
C11_NeverThrowsOnMalformedInput ==
  (/\ last.op = "processDocument"
   /\ \/ last.document = NullDocument
      \/ ExtractText(last.document) \in {<<>>, tNumber}) =>
    (~last.threw /\ ~last.ret.pipeline.passed)

\* what francAll does on the text of the call in last
Classified == classify[CallText]

\* the result of identifyLanguage: not passed, detected as given, confidence 0,
\* with a reason
IsFailure(check, detected) ==
  /\ check.passed = FALSE
  /\ check.detected = detected
  /\ EqR(check.confidence, Zero)
  /\ check.reason # Null

\* the document was rejected for its language alone and the dedup state kept
RejectedForLanguage ==
  /\ ~Passed'
  /\ Flags' = ("language" :> TRUE)
  /\ DOMAIN Measured' = {"language"}
  /\ DedupStateUnchanged

\* C12 as claimed: when francAll throws or returns malformed output (null, or
\* an entry without a confidence), processDocument returns, the language
\* result is passed = false, detected = "error", confidence = 0 with a
\* reason, the document is rejected with filters.language = true, and the
\* dedup state is untouched.
C12_ClassifierFailureIsError ==
  [][(/\ last'.op = "processDocument"
      /\ last'.document # NullDocument
      /\ ExtractText(last'.document) # <<>>
      /\ \/ classify[ExtractText(last'.document)].kind \in {"throw", "null"}
         \/ classify[ExtractText(last'.document)] = MissingConfidence) =>
       /\ ~last'.threw
       /\ IsFailure(Measured'.language, "error")
       /\ RejectedForLanguage
    ]_vars

\* C12 as amended: that holds when francAll throws or returns output whose
\* handling throws (an entry without a confidence); when francAll returns
\* null the language result is detected = "undetermined" instead, the rest
\* the same.
C12_ClassifierFailureIsErrorOrUndetermined ==
  [][(/\ last'.op = "processDocument"
      /\ last'.document # NullDocument
      /\ ExtractText(last'.document) # <<>>
      /\ \/ classify[ExtractText(last'.document)].kind \in {"throw", "null"}
         \/ classify[ExtractText(last'.document)] = MissingConfidence) =>
       /\ ~last'.threw
       /\ IF Classified'.kind = "null"
          THEN IsFailure(Measured'.language, "undetermined")
          ELSE IsFailure(Measured'.language, "error")
       /\ RejectedForLanguage
    ]_vars

\* francAll threw on a document submitted to an instance that held n-grams
C12_Witness ==
  /\ IsCall
  /\ CallText # <<>>
  /\ Classified.kind = "throw"
  /\ Measured.language.detected = "error"
  /\ seenNGrams # {}

\* C13: for a classifier output that is a list of <<code, confidence>>
\* candidates: with no candidates, or with "und" on top, identifyLanguage
\* returns passed = false, detected = "undetermined", confidence = 0;
\* otherwise it reports the top candidate, passed exactly if its code is a
\* target language and its confidence is at least minLanguageConfidence, and
\* allDetections holds the first three candidates (all, if fewer) in order.
C13_LanguageVerdict ==
  (/\ last.op = "identifyLanguage"
   /\ last.out.kind = "list"
   /\ \A i \in DOMAIN last.out.languages : Len(last.out.languages[i]) = 2) =>
    LET candidates == last.out.languages
        ret == last.ret
        targets == {options.targetLanguages[i] : i \in DOMAIN options.targetLanguages}
    IN  IF candidates = <<>> \/ candidates[1][1] = "und"
        THEN /\ ret.passed = FALSE
             /\ ret.detected = "undetermined"
             /\ EqR(ret.confidence, Zero)
        ELSE /\ ret.detected = candidates[1][1]
             /\ ret.confidence = candidates[1][2]
             /\ ret.passed <=>
                  (/\ candidates[1][1] \in targets
                   /\ ~Lt(candidates[1][2], options.minLanguageConfidence))
             /\ Len(ret.allDetections) <= 3
             /\ Len(ret.allDetections) =
                  (IF Len(candidates) < 3 THEN Len(candidates) ELSE 3)
             /\ \A i \in DOMAIN ret.allDetections :
                  /\ ret.allDetections[i].language = candidates[i][1]
                  /\ ret.allDetections[i].confidence = candidates[i][2]

\* a second target language was detected with exactly the confidence asked for
C13_Witness ==
  /\ last.op = "identifyLanguage"
  /\ last.out.kind = "list"
  /\ last.ret.detected = "fra"
  /\ last.ret.passed
  /\ last.ret.confidence = options.minLanguageConfidence
  /\ last.ret.confidence = Rat(9, 10)

\* last is a processBatch call that returned; what it was given and returned
IsBatch == last.op = "processBatch" /\ ~last.threw

BatchDocuments == last.documents

BatchResults == last.ret.results

BatchStats == last.ret.stats

\* the fields of a record other than pipeline
Fields(doc) == [k \in (DOMAIN doc) \ {"pipeline"} |-> doc[k]]

\* C14: every call of processBatch returns, with one result per input
\* document in input order however many are rejected, stats.total the number
\* of inputs, stats.passed the number of results that passed,
\* passed + failed = total, and passRate = passed / total, 0 for the empty
\* batch.
C14_OneResultPerDocument ==
  last.op = "processBatch" =>
    /\ ~last.threw
    /\ Len(BatchResults) = Len(BatchDocuments)
    /\ \A i \in DOMAIN BatchDocuments :
         /\ Fields(BatchResults[i]) = Fields(BatchDocuments[i])
         /\ "pipeline" \in DOMAIN BatchResults[i]
    /\ BatchStats.total = Len(BatchDocuments)
    /\ BatchStats.passed = PassedCount(BatchResults)
    /\ BatchStats.passed + BatchStats.failed = BatchStats.total
    /\ IF BatchStats.total = 0
       THEN last.ret.passRate = Zero
       ELSE EqR(last.ret.passRate, Rat(BatchStats.passed, BatchStats.total))

\* the flags of one stage
StageFlags == {{"emptyText"}, {"language"}, QualityFilterNames, {"duplicate"}}

\* the flags that are true in a result
TrueFlags(result) ==
  {f \in DOMAIN result.pipeline.filters : result.pipeline.filters[f] = TRUE}

\* C15: in what processBatch returns, failureReasons[name] is the number of
\* rejected documents of the batch whose flag name is true (no entry when
\* there is none), so a document failing several quality checks counts for
\* each of them; and the true flags of a rejected document belong to one
\* stage: emptyText, language, the quality group, or duplicate.
C15_FailureReasonsCountFlags ==
  IsBatch =>
    LET reasons == BatchStats.failureReasons
        Rejected(name) == {i \in DOMAIN BatchResults :
                             /\ ~BatchResults[i].pipeline.passed
                             /\ name \in TrueFlags(BatchResults[i])}
    IN  /\ DOMAIN reasons \subseteq UNION StageFlags
        /\ \A name \in UNION StageFlags :
             IF Rejected(name) = {}
             THEN name \notin DOMAIN reasons
             ELSE name \in DOMAIN reasons /\ reasons[name] = Cardinality(Rejected(name))
        /\ \A i \in DOMAIN BatchResults :
             ~BatchResults[i].pipeline.passed =>
               \E stage \in StageFlags :
                 TrueFlags(BatchResults[i]) # {} /\ TrueFlags(BatchResults[i]) \subseteq stage

\* a batch returned in which one document failed two quality checks, one the
\* language check and one had no text
C15_Witness ==
  /\ IsBatch
  /\ DOMAIN BatchStats.failureReasons =
       {"emptyText", "language", "tooShort", "tooFewWords"}
  /\ \E i \in DOMAIN BatchResults :
       TrueFlags(BatchResults[i]) = {"tooShort", "tooFewWords"}
  /\ BatchStats.failed = 3

\* last is exportFiltered called on the results of the batch last.documents
IsExport == last.op = "exportFiltered"

\* the places of the batch whose result passed, in order
AcceptedPlaces == SelectSeq([i \in DOMAIN last.results |-> i],
                            LAMBDA i : last.results[i].pipeline.passed)

\* C18 as claimed: exportFiltered returns, in order, one entry per result
\* that passed and none for the others, and each entry is the input document
\* the result came from.
C18_ExportIsTheAcceptedDocuments ==
  IsExport =>
    /\ Len(last.ret) = Len(AcceptedPlaces)
    /\ \A j \in DOMAIN last.ret : last.ret[j] = last.documents[AcceptedPlaces[j]]

\* C18 as amended: each entry is the input document without its pipeline
\* field: the document itself if it has no field of that name.
C18_ExportIsTheAcceptedDocumentsLessPipeline ==
  IsExport =>
    /\ Len(last.ret) = Len(AcceptedPlaces)
    /\ \A j \in DOMAIN last.ret :
         LET result == last.results[AcceptedPlaces[j]]
             document == last.documents[AcceptedPlaces[j]]
         IN  /\ last.ret[j] = Fields(result)
             /\ last.ret[j] = Fields(document)
             /\ "pipeline" \notin DOMAIN last.ret[j]
             /\ "pipeline" \notin DOMAIN document => last.ret[j] = document

\* the results of a batch of four were exported: three rejected, and one
\* accepted document with a title
C18_Witness ==
  /\ IsExport
  /\ Len(last.results) = 4
  /\ Len(last.ret) = 1
  /\ last.ret[1].title = "kept"

\* the options that are lower limits; the others of QualityRules are upper
\* limits
LowerLimits ==
  {"minTextLength", "minWordCount", "minAvgWordLength",
   "minLinesEndingWithPunctuation", "minUniqueWordsRatio"}

\* a < b for two values of the kind of option k
Below(k, a, b) == IF k \in IntOptions THEN a < b ELSE Lt(a, b)

\* the metric of a rule is strictly on the wrong side of its option
Breaks(rule, metrics) ==
  IF rule.option \in LowerLimits
  THEN Below(rule.option, metrics[rule.metric], options[rule.option])
  ELSE Below(rule.option, options[rule.option], metrics[rule.metric])

\* C19: applyQualityFilters returns the twelve flags, each true exactly if its
\* metric is strictly under its lower limit or strictly over its upper
\* limit, so not when the metric equals the threshold; and a document that
\* reaches the quality stage is rejected there exactly if a flag is true.
C19_TwelveStrictFlags ==
  /\ last.op = "applyQualityFilters" =>
       /\ DOMAIN last.ret = QualityFilterNames
       /\ Cardinality(DOMAIN last.ret) = 12
       /\ \A r \in DOMAIN QualityRules :
            LET rule == QualityRules[r]
            IN  /\ last.ret[rule.flag] \in BOOLEAN
                /\ last.ret[rule.flag] <=> Breaks(rule, last.metrics)
                /\ last.metrics[rule.metric] = options[rule.option] =>
                     ~last.ret[rule.flag]
  /\ (IsCall /\ QualityFilterNames \subseteq DOMAIN Flags) =>
       LET flagged == \E q \in QualityFilterNames : Flags[q]
           rejectedThere == ~Passed /\ "duplicate" \notin DOMAIN Flags
       IN  /\ rejectedThere <=> flagged
           /\ \A r \in DOMAIN QualityRules :
                Flags[QualityRules[r].flag] <=>
                  Breaks(QualityRules[r], CalculateMetrics(CallText))

\* applyQualityFilters was given metrics that all equal their thresholds and
\* raised no flag
C19_Witness ==
  /\ last.op = "applyQualityFilters"
  /\ last.metrics = AtThresholds(options)
  /\ \A q \in QualityFilterNames : ~last.ret[q]

\* C20: for n >= 1, generateNGrams(text, n) returns words.length - n + 1
\* windows if the lowercased, whitespace-split text has at least n words and
\* none otherwise; window i is the words i .. i+n-1 joined by single spaces,
\* so every key splits back into exactly those n words.
C20_WindowsOfNWords ==
  last.op = "generateNGrams" =>
    LET words == WordsOf(last.text)
        n == last.n
        ngrams == last.ret
    IN  /\ n >= 1
        /\ Len(ngrams) = (IF Len(words) >= n THEN Len(words) - n + 1 ELSE 0)
        /\ \A i \in DOMAIN ngrams :
             /\ ngrams[i] = Join(SubSeq(words, i, i + n - 1), <<" ">>)
             /\ SplitWs(ngrams[i]) = SubSeq(words, i, i + n - 1)
             /\ Len(SplitWs(ngrams[i])) = n
             /\ \A j \in 1..(Len(ngrams[i]) - 1) :
                  ~(ngrams[i][j] = " " /\ ngrams[i][j + 1] = " ")

\* three windows of three words were made of a text of five words in mixed
\* case, separated by runs of spaces and a line break
C20_Witness ==
  /\ last.op = "generateNGrams"
  /\ last.n = 3
  /\ Len(WordsOf(last.text)) = 5
  /\ Len(last.ret) = 3
  /\ last.ret[2] = <<"b", " ", "a", " ", "b">>

\* last is a processBatch call (B) made right after another one (A)
IsSecondBatch == last.op = "processBatch" /\ "earlier" \in DOMAIN last /\ last.earlier # <<>>

\* the verdicts of the results a batch call returned
Verdicts(call) ==
  IF call.threw THEN <<>>
  ELSE [i \in DOMAIN call.ret.results |-> call.ret.results[i].pipeline]

\* C16: batch A and then batch B, with no reset in between, give the
\* per-document verdicts and the final seenNGrams and processedDocuments that
\* the concatenation of A and B gives as one batch from the same state.
C16_BatchesCompose ==
  IsSecondBatch =>
    LET first == last.earlier[1]
        whole == ProcessBatch(first.before, first.documents \o last.documents, classify)
    IN  /\ whole.self.seenNGrams = seenNGrams
        /\ whole.self.processedDocuments = processedDocuments
        /\ Verdicts(whole) = Verdicts(first) \o Verdicts(last)

\* the fields a dedup result is to carry
DedupFields == {"passed", "overlapRatio", "totalNGrams", "duplicateNGrams"}

\* C21: for every document that reaches the dedup stage the dedup result
\* carries passed, overlapRatio, totalNGrams and duplicateNGrams; totalNGrams
\* is the number of windows, duplicateNGrams the number of windows (each
\* occurrence counted) whose key is in seenNGrams at check time,
\* 0 <= duplicateNGrams <= totalNGrams, and overlapRatio is their quotient
\* (0 when there are no windows).
C21_DedupResultIsComplete ==
  [][ReachedDedup' =>
       LET total == Len(Windows(CallText', options.ngramSize))
           seen == WindowsIn(CallText', options.ngramSize, seenNGrams)
       IN  /\ DedupFields \subseteq DOMAIN Dedup'
           /\ Dedup'.totalNGrams = total
           /\ Dedup'.duplicateNGrams = seen
           /\ 0 <= seen /\ seen <= total
           /\ EqR(Dedup'.overlapRatio, Ratio(seen, total))
    ]_vars

\* the text of the call in last has fewer than ngramSize words
ShortOfAWindow == Len(WordsOf(CallText)) < options.ngramSize

\* C22: a document with fewer than ngramSize words that reaches the dedup
\* check passes it with overlapRatio 0, whatever seenNGrams holds and whatever
\* the threshold; it is accepted, seenNGrams stays as it was and
\* processedDocuments grows by one; and submitted again it is accepted again.
C22_ShortDocumentAlwaysPassesDedup ==
  [][/\ (ReachedDedup' /\ ShortOfAWindow') =>
          /\ Dedup'.passed
          /\ EqR(Dedup'.overlapRatio, Zero)
          /\ Flags'["duplicate"] = FALSE
          /\ Passed'
          /\ seenNGrams' = seenNGrams
          /\ processedDocuments' = processedDocuments + 1
     /\ (IsCall' /\ ShortOfAWindow' /\ CallText' \in acceptedTexts) =>
          (ReachedDedup' /\ Passed')
    ]_vars

\* under the threshold 0 a document of two words, ngramSize being 3, was
\* accepted twice
C22_Witness ==
  /\ ReachedDedup
  /\ ShortOfAWindow
  /\ Passed
  /\ options.ngramOverlapThreshold = Zero
  /\ acceptedTexts = {CallText}
  /\ processedDocuments = 2
  /\ seenNGrams = {}

\* the metrics that are quotients, each with what its denominator counts
RatioMetrics ==
  [avgWordLength |-> "words", uniqueWordsRatio |-> "words",
   symbolToWordRatio |-> "words", digitRatio |-> "characters",
   uppercaseRatio |-> "letters", linesEndingWithPunctuationRatio |-> "lines",
   bulletPointRatio |-> "lines", ellipsisLineRatio |-> "lines"]

CountMetrics == {"textLength", "wordCount", "uniqueWordCount", "lineCount"}

\* a fraction that is a number: not NaN and not infinite
IsFinite(r) == r.den > 0

\* how many words, characters, letters and non-blank lines a text has
Denominators(text) ==
  [words |-> Len(WordsOf(text)),
   characters |-> Len(text),
   letters |-> Cardinality({i \in DOMAIN text : text[i] \in LowerChars \cup UpperChars}),
   lines |-> Cardinality({i \in DOMAIN SplitLines(text) :
                            Trim(SplitLines(text)[i]) # <<>>})]

IsMetrics == last.op = "calculateMetrics"

\* C23: calculateMetrics returns every metric for every string; each ratio is
\* a number, and is 0 when its denominator (the words, the characters, the
\* letters, the non-blank lines) is zero; the empty string has 0 for every
\* count and every ratio.
C23_MetricsNeverFail ==
  IsMetrics =>
    LET metrics == last.ret
        dens == Denominators(last.text)
    IN  /\ DOMAIN metrics = MetricNames
        /\ \A r \in DOMAIN RatioMetrics :
             /\ IsFinite(metrics[r])
             /\ dens[RatioMetrics[r]] = 0 => metrics[r] = Zero
        /\ last.text = <<>> =>
             /\ \A c \in CountMetrics : metrics[c] = 0
             /\ \A r \in DOMAIN RatioMetrics : metrics[r] = Zero

\* the metrics of a single blank: one character, and no word, letter or line
C23_Witness ==
  /\ IsMetrics
  /\ last.text = tBlank
  /\ last.ret.textLength = 1
  /\ last.ret.wordCount = 0
  /\ last.ret.uppercaseRatio = Zero
  /\ last.ret.bulletPointRatio = Zero

\* a fraction in [0, 1]
InUnit(r) == IsFinite(r) /\ 0 <= r.num /\ r.num <= r.den

UnitRatios ==
  {"uniqueWordsRatio", "digitRatio", "uppercaseRatio",
   "linesEndingWithPunctuationRatio", "bulletPointRatio", "ellipsisLineRatio"}

\* the counts a result reports are natural numbers, and its language
\* confidence, its overlapRatio and the ratios named are in [0, 1]
CountsAndRatiosInRange(ratioNames) ==
  /\ \A r \in ratioNames \cap DOMAIN Measured : InUnit(Measured[r])
  /\ \A c \in CountMetrics \cap DOMAIN Measured : Measured[c] \in Nat
  /\ "language" \in DOMAIN Measured => InUnit(Measured.language.confidence)
  /\ "ngramDuplication" \in DOMAIN Measured =>
       /\ InUnit(Dedup.overlapRatio)
       /\ \A c \in {"totalNGrams", "duplicateNGrams"} \cap DOMAIN Dedup :
            Dedup[c] \in Nat

\* C24 as claimed: in every result of processDocument every reported ratio,
\* symbolToWordRatio among them, and the language confidence lie in [0, 1],
\* and every reported count is a non-negative integer.
C24_RatiosInUnitInterval ==
  IsCall => CountsAndRatiosInRange(UnitRatios \cup {"symbolToWordRatio"})

\* C24 as amended: that holds of every ratio but symbolToWordRatio, which is
\* a non-negative number and may exceed 1.
C24_RatiosInUnitIntervalButSymbols ==
  IsCall =>
    /\ CountsAndRatiosInRange(UnitRatios)
    /\ "symbolToWordRatio" \in DOMAIN Measured =>
         (IsFinite(Measured.symbolToWordRatio) /\ Measured.symbolToWordRatio.num >= 0)

\* a result reported two symbol characters to one word
C24_Witness ==
  /\ IsCall
  /\ "symbolToWordRatio" \in DOMAIN Measured
  /\ Gt(Measured.symbolToWordRatio, Rat(1, 1))
  /\ InUnit(Measured.uniqueWordsRatio)
  /\ Measured.wordCount = 1

\* the defaults as the README lists them under Constructor Options
DocumentedDefaults ==
  [targetLanguages |-> <<"eng">>,
   minLanguageConfidence |-> Rat(5, 10),
   minTextLength |-> 100,
   maxTextLength |-> 100000,
   minWordCount |-> 20,
   minAvgWordLength |-> Rat(3, 1),
   maxAvgWordLength |-> Rat(15, 1),
   minLinesEndingWithPunctuation |-> Rat(5, 10),
   maxBulletPointRatio |-> Rat(5, 10),
   maxEllipsisLineRatio |-> Rat(3, 10),
   maxSymbolToWordRatio |-> Rat(1, 10),
   maxDigitRatio |-> Rat(15, 100),
   maxUppercaseRatio |-> Rat(2, 10),
   minUniqueWordsRatio |-> Rat(3, 10),
   ngramSize |-> 13,
   ngramOverlapThreshold |-> Rat(8, 10)]

\* the same number, for options that are whole numbers or fractions
SameValue(k, a, b) == IF k \in RatOptions THEN EqR(a, b) ELSE a = b

\* the instance with the options of unknown names taken away
WithKnownOptionsOnly(self) ==
  [self EXCEPT !.options = [k \in (DOMAIN @) \cap (DOMAIN OptionDefaults) |-> @[k]]]

\* C25: after construction every option absent from the argument has its
\* documented default and every option supplied has the value given, 0
\* included; and every call of processDocument ends as it would on the
\* instance without the options of unknown names.
C25_DefaultsAndSuppliedOptions ==
  [][/\ last.op = "constructor" =>
          /\ \A k \in (DOMAIN DocumentedDefaults) \ (DOMAIN last.opts) :
               k \in DOMAIN options /\ SameValue(k, options[k], DocumentedDefaults[k])
          /\ \A k \in DOMAIN last.opts :
               k \in DOMAIN options /\ options[k] = last.opts[k]
     /\ last'.op = "processDocument" =>
          LET out == ProcessDocument(WithKnownOptionsOnly(Self), last'.document, classify)
          IN  /\ last'.threw = out.threw
              /\ last'.ret = out.result
              /\ seenNGrams' = out.self.seenNGrams
              /\ processedDocuments' = out.self.processedDocuments
    ]_vars

\* an instance built with the threshold 0, a minWordCount of 2, no
\* maxTextLength and an option it does not know accepted a document
C25_Witness ==
  /\ IsCall
  /\ Passed
  /\ "verbose" \in DOMAIN options
  /\ options.ngramOverlapThreshold = Zero
  /\ options.minWordCount = 2
  /\ options.maxTextLength = 100000

\* a configuration as the specification allows it: ngramSize a positive
\* integer and ngramOverlapThreshold in [0, 1]
ValidConfiguration ==
  /\ options.ngramSize >= 1
  /\ InUnit(options.ngramOverlapThreshold)

\* C26: construction fails on an invalid configuration (an ngramSize below 1,
\* an ngramOverlapThreshold outside [0, 1]), so that no instance has one and
\* no document is ever processed under one.
C26_InvalidConfigurationIsRejected ==
  last.op = "processDocument" => ValidConfiguration

IsUnawaited == last.op = "processDocuments"

\* the instance as it is once the documents at the places given, out of those
\* of the call in last, have been committed to the instance the call began on
AfterCommitting(places) ==
  [last.before EXCEPT
     !.seenNGrams = @ \cup UNION {WindowKeys(ExtractText(last.documents[j]),
                                             last.before.options.ngramSize) :
                                    j \in places},
     !.processedDocuments = @ + Cardinality(places)]

\* C27: when processDocument is invoked for several documents without
\* awaiting each call, every invocation ends as the call of its document
\* alone on the instance to which the documents accepted before it, in the
\* order of invocation, have been committed, and the instance ends as the
\* one to which all the accepted documents have been committed.
C27_UnawaitedCallsAreSerialized ==
  IsUnawaited =>
    LET promises == last.promises
        accepted == AcceptedPromises(promises)
    IN  /\ Len(promises) = Len(last.documents)
        /\ \A i \in DOMAIN promises :
             LET alone == ProcessDocument(AfterCommitting({j \in accepted : j < i}),
                                          last.documents[i], classify)
             IN  promises[i] = Promise(alone)
        /\ Self = AfterCommitting(accepted)

\* a document was invoked twice without awaiting: the first call accepted it
\* and the second rejected it as a duplicate of the first
C27_Witness ==
  /\ IsUnawaited
  /\ Len(last.documents) = 2
  /\ last.documents[1] = last.documents[2]
  /\ last.promises[1].value.pipeline.passed
  /\ ~last.promises[2].value.pipeline.passed
  /\ last.promises[2].value.pipeline.filters.duplicate

\* a crawlRecursive call is in flight, or last is one that has returned
InCrawl == crawl.pc = "running"

CrawlReturned == last.op = "crawlRecursive" /\ last.returned

\* the option as the caller supplied it, the documented default when left out
Supplied(opts, k, documented) == IF k \in DOMAIN opts THEN opts[k] ELSE documented

\* C28: crawlRecursive never visits more than maxPages URLs: at every point
\* of the crawl visited has at most maxPages elements, and on return
\* totalPages <= maxPages and crawledData.length <= totalPages.
C28_AtMostMaxPagesVisited ==
  /\ InCrawl =>
       Cardinality(Range(crawl.visited)) <= Supplied(crawl.options, "maxPages", 100)
  /\ CrawlReturned =>
       /\ last.ret.totalPages <= Supplied(last.options, "maxPages", 100)
       /\ Len(last.ret.crawledData) <= last.ret.totalPages

\* C29: crawlRecursive never crawls a page at a depth greater than the
\* maxDepth supplied (the start page is depth 0), also when that is 0, and
\* every node of the returned linkTree has depth <= maxDepth.
C29_NeverDeeperThanMaxDepth ==
  /\ InCrawl =>
       \A i \in DOMAIN crawl.crawls :
         crawl.crawls[i].depth <= Supplied(crawl.options, "maxDepth", 3)
  /\ CrawlReturned =>
       /\ \A i \in DOMAIN last.crawls :
            last.crawls[i].depth <= Supplied(last.options, "maxDepth", 3)
       /\ \A node \in last.ret.linkTree :
            node.depth <= Supplied(last.options, "maxDepth", 3)

\* no two entries of seq are equal
NoDuplicates(seq) == \A i, j \in DOMAIN seq : seq[i] = seq[j] => i = j

CrawledUrls(crawls) == [i \in DOMAIN crawls |-> crawls[i].url]

\* C30: crawlRecursive calls crawlPage at most once for a URL, also for one
\* found in the links of several pages; visitedUrls has no duplicates and is
\* the URLs crawled, and totalPages is the number of distinct URLs visited.
C30_EachUrlCrawledOnce ==
  /\ InCrawl =>
       /\ NoDuplicates(CrawledUrls(crawl.crawls))
       /\ NoDuplicates(crawl.visited)
  /\ CrawlReturned =>
       /\ NoDuplicates(CrawledUrls(last.crawls))
       /\ NoDuplicates(last.ret.visitedUrls)
       /\ last.ret.visitedUrls = CrawledUrls(last.crawls)
       /\ last.ret.totalPages = Cardinality(Range(last.ret.visitedUrls))

\* a crawl from A over the web in which B links back to A and C is linked
\* from both A and B returned with all seven pages visited
C30_Witness ==
  /\ CrawlReturned
  /\ last.web = WebWithCycles
  /\ last.startUrl = "A"
  /\ last.ret.totalPages = 7
  /\ Len(last.crawls) = 7

\* the first five of the links extracted from a page of the web of the crawl
FirstFiveLinks(url) ==
  LET links == last.web.links[url]
  IN  {links[i] : i \in {j \in DOMAIN links : j <= 5}}

\* C31: crawlRecursive follows at most 5 links from any crawled page: every
\* node of the returned linkTree has at most 5 children, and the url of each
\* child is among the first 5 links extracted from its parent.
C31_AtMostFiveLinksFollowed ==
  CrawlReturned =>
    \A node \in last.ret.linkTree :
      LET children == Children(last.ret.linkTree, node.path)
      IN  /\ Cardinality(children) <= 5
          /\ \A child \in children : child.url \in FirstFiveLinks(node.url)

\* a crawl from a page with seven links returned with five children under
\* the root, the sixth link never visited
C31_Witness ==
  /\ CrawlReturned
  /\ Len(last.web.links[last.startUrl]) = 7
  /\ Cardinality(Children(last.ret.linkTree, <<>>)) = 5
  /\ ~Has(last.ret.visitedUrls, last.web.links[last.startUrl][6])

IsCrawlMultiple == last.op = "crawlMultiple"

\* C32: crawlMultiple(urls) returns one entry per input url in input order:
\* the page data of a url whose crawl succeeds, and for a url whose crawl
\* fails an entry holding that url and the error message and no page data;
\* a failure neither stops the urls after it from being crawled nor makes
\* crawlMultiple throw.
C32_OneEntryPerUrl ==
  IsCrawlMultiple =>
    /\ ~last.threw
    /\ Len(last.ret) = Len(last.urls)
    /\ \A i \in DOMAIN last.urls :
         IF last.urls[i] \in last.web.fails
         THEN /\ last.ret[i].url = last.urls[i]
              /\ "error" \in DOMAIN last.ret[i]
              /\ last.ret[i].error = <<"cannot crawl", last.urls[i]>>
              /\ "title" \notin DOMAIN last.ret[i]
         ELSE /\ last.ret[i] = PageData(last.urls[i])
              /\ "error" \notin DOMAIN last.ret[i]

\* of three urls the second failed: its entry holds the error, and the
\* third was crawled
C32_Witness ==
  /\ IsCrawlMultiple
  /\ Len(last.urls) = 3
  /\ last.urls[2] \in last.web.fails
  /\ "error" \in DOMAIN last.ret[2]
  /\ "title" \in DOMAIN last.ret[3]

\* the field of a document, the empty string when the document lacks it
FieldOr(document, field) ==
  IF field \in DOMAIN document THEN document[field] ELSE <<>>

\* the text the claim has processDocument evaluate
ClaimedText(document) ==
  IF FieldOr(document, "filteredText") # <<>> THEN document.filteredText
  ELSE FieldOr(document, "text")

\* C33: processDocument evaluates the document's filteredText when that is
\* non-empty, otherwise its text, and rejects the document as emptyText when
\* neither is: the verdict, flags, metrics and the dedup state after the call
\* are those of a document holding the claimed text alone, and a text given
\* beside a non-empty filteredText changes nothing.
C33_FilteredTextBeforeText ==
  [][IsCall' =>
       LET text == ClaimedText(last'.document)
           alone == ProcessDocument(Self, [filteredText |-> text], classify)
       IN  /\ last'.ret.pipeline = alone.result.pipeline
           /\ seenNGrams' = alone.self.seenNGrams
           /\ processedDocuments' = alone.self.processedDocuments
           /\ text = <<>> => (~Passed' /\ Flags' = ("emptyText" :> TRUE))
           /\ (text # <<>> /\ "textLength" \in DOMAIN Measured') =>
                Measured'.textLength = Len(text)
    ]_vars

\* a document with both fields was accepted on its filteredText, its text
\* being one that is rejected
C33_Witness ==
  /\ IsCall
  /\ {"filteredText", "text"} \subseteq DOMAIN last.document
  /\ last.document.filteredText # <<>>
  /\ last.document.text # <<>>
  /\ last.document.text # last.document.filteredText
  /\ Passed
  /\ Measured.textLength = Len(last.document.filteredText)

\* the methods the claim says read the instance without changing it
ReadOnlyMethods ==
  {"identifyLanguage", "calculateMetrics", "applyQualityFilters",
   "generateNGrams", "checkDuplicates", "getStats", "exportFiltered"}

\* C34: a call of identifyLanguage, calculateMetrics, applyQualityFilters,
\* generateNGrams, checkDuplicates, getStats or exportFiltered leaves seenNGrams
\* and processedDocuments as they were; a step that changes either is an
\* accepting processDocument or a reset; and what calculateMetrics returns,
\* whatever was processed or reset before the call, is the metrics of its text.
C34_ReadOnlyMethods ==
  [][/\ last'.op \in ReadOnlyMethods => DedupStateUnchanged
     /\ ~DedupStateUnchanged =>
          \/ last'.op = "reset"
          \/ IsCall' /\ Passed'
     /\ last'.op = "calculateMetrics" =>
          last'.ret = CalculateMetrics(last'.text)
    ]_vars

\* checkDuplicates found seen n-grams in a text, on an instance that had
\* accepted a document, and nothing was added
C34_Witness ==
  /\ last.op = "checkDuplicates"
  /\ processedDocuments > 0
  /\ "duplicateNGrams" \in DOMAIN last.ret
  /\ last.ret.duplicateNGrams > 0
  /\ last.ret.duplicateNGrams < last.ret.totalNGrams
  /\ Cardinality(seenNGrams) = 1

\* the punctuation characters of the texts
PunctuationChars == {".", "!", "-", "*"}

NotPunctuation(c) == c \notin PunctuationChars

\* the places where the words of two texts of equally many words differ
DifferingWords(t, u) ==
  {i \in DOMAIN WordsOf(t) : WordsOf(t)[i] # WordsOf(u)[i]}

\* t and u have the same words but for one, which differs in punctuation only
DiffersInPunctuation(t, u) ==
  /\ Len(WordsOf(t)) = Len(WordsOf(u))
  /\ Cardinality(DifferingWords(t, u)) = 1
  /\ \A i \in DifferingWords(t, u) :
       SelectSeq(WordsOf(t)[i], NotPunctuation) = SelectSeq(WordsOf(u)[i], NotPunctuation)

C36_PassedIffNoTrueFlag ==
  IsCall =>
    /\ Passed <=> TrueFlags(last.ret) = {}
    /\ ~Passed => TrueFlags(last.ret) # {}
    /\ Passed =>
         /\ AllFlagNames \subseteq DOMAIN Flags
         /\ Cardinality(QualityFilterNames) = 12
         /\ \A f \in AllFlagNames : Flags[f] = FALSE

\* a result rejected by the quality stage with several true flags beside false
\* ones, returned after another document had been accepted with none
C36_Witness ==
  /\ IsCall
  /\ ~Passed
  /\ Cardinality(TrueFlags(last.ret)) > 1
  /\ TrueFlags(last.ret) \subseteq QualityFilterNames
  /\ Flags["language"] = FALSE
  /\ acceptedCount > 0

\* what the dedup check returns for a text on the instance self, with the
\* count 0 for a text that has no n-grams (its result carries no count)
DuplicateCount(self, text) ==
  LET check == CheckDuplicates(self, text)
  IN  IF "duplicateNGrams" \in DOMAIN check THEN check.duplicateNGrams ELSE 0

\* processDocument(document) on the instance self returns a result rejected
\* as a duplicate
RejectedAsDuplicate(self, document) ==
  LET out == ProcessDocument(self, document, classify)
  IN  /\ ~out.threw
      /\ "duplicate" \in DOMAIN out.result.pipeline.filters
      /\ out.result.pipeline.filters.duplicate

\* C37: over every step that is not a reset, either seenNGrams and
\* processedDocuments stay as they are, and with them every result of the
\* dedup check, or for every text the duplicateNGrams count and the
\* overlapRatio that the dedup check returns do not decrease, and every document
\* that processDocument rejects as a duplicate before the step is rejected as a
\* duplicate after it.
C37_DuplicatesStayDuplicates ==
  [][(last'.op # "reset" /\ ~DedupStateUnchanged) =>
       /\ \A text \in Texts \ {tNumber} :
            /\ DuplicateCount(Self', text) >= DuplicateCount(Self, text)
            /\ Ge(CheckDuplicates(Self', text).overlapRatio,
                  CheckDuplicates(Self, text).overlapRatio)
       /\ \A document \in Corpus :
            RejectedAsDuplicate(Self, document) => RejectedAsDuplicate(Self', document)
    ]_vars

\* a document was rejected as a duplicate of another text accepted since the
\* last reset, only part of its n-grams being seen
C37_Witness ==
  /\ IsCall
  /\ Flagged("duplicate")
  /\ acceptedCount = 1
  /\ CallText \notin acceptedTexts
  /\ Dedup.duplicateNGrams > 0
  /\ Dedup.duplicateNGrams < Dedup.totalNGrams
  /\ RejectedAsDuplicate(Self, last.document)

\* the step is a processDocument call that reached the dedup stage on an
\* instance whose seenNGrams was empty
ReachesDedupOnEmptySet ==
  /\ seenNGrams = {}
  /\ IsCall'
  /\ "ngramDuplication" \in DOMAIN Measured'

\* the result of the dedup stage counts no duplicate and has the ratio 0
NothingCounted(dedup) ==
  /\ EqR(dedup.overlapRatio, Zero)
  /\ "duplicateNGrams" \in DOMAIN dedup => dedup.duplicateNGrams = 0

RECURSIVE RunLog(_, _, _)
RunLog(self, log, i) ==
  IF i > Len(log) THEN [self |-> self, same |-> TRUE]
  ELSE IF log[i].op = "reset" THEN RunLog(Reset(self), log, i + 1)
  ELSE LET out == ProcessDocument(self, log[i].document, classify)
       IN  IF out.threw = log[i].threw /\ out.result = log[i].ret
           THEN RunLog(out.self, log, i + 1)
           ELSE [self |-> self, same |-> FALSE]

\* the documents the processBatch call b has had processed, in order
RECURSIVE DocumentsOf(_, _)
DocumentsOf(log, b) ==
  IF log = <<>> THEN <<>>
  ELSE LET rest == DocumentsOf(Tail(log), b)
       IN  IF Head(log).op = "processDocument" /\ Head(log).slot = b
           THEN <<Head(log).document>> \o rest
           ELSE rest

\* what the processBatch call of a frame returned covers its documents
CoversItsDocuments(frame) ==
  /\ ~frame.threw
  /\ Len(frame.ret.results) = Len(frame.documents)
  /\ \A i \in DOMAIN frame.documents :
       /\ Fields(frame.ret.results[i]) = Fields(frame.documents[i])
       /\ "pipeline" \in DOMAIN frame.ret.results[i]
  /\ frame.ret.stats.total = Len(frame.documents)
  /\ frame.ret.stats.passed = PassedCount(frame.ret.results)
  /\ frame.ret.stats.passed + frame.ret.stats.failed = frame.ret.stats.total

\* C39: with two processBatch calls in flight and reset() called between
\* their steps, the instance is at every moment what the operations so far
\* give when run one after another, each document's verdict being the one that
\* run gives it; every call that has ended returned results and stats that
\* cover exactly its own documents in its own order; and when both have ended,
\* every document of both batches has been processed, in the order of its batch.
C39_InterleavingAtDocumentBoundaries ==
  LET run == RunLog(Constructor(last.opts), last.log, 1)
  IN  /\ run.same
      /\ run.self = Self
      /\ \A b \in Slots :
           batch[b].pc = "returned" => CoversItsDocuments(batch[b])
      /\ (\A b \in Slots : batch[b].pc = "returned") =>
           \A b \in Slots : DocumentsOf(last.log, b) = batch[b].documents

\* C40: every crawlRecursive call eventually returns its result, whatever the
\* start URL, maxPages and maxDepth, in a web whose pages link to each other
\* in cycles and in one where page crawls fail and link extraction yields
\* nothing, provided each awaited call eventually returns or throws.
C40_CrawlRecursiveTerminates == InCrawl ~> (CrawlReturned /\ ~InCrawl)

\* a crawl has returned that began at a page linking to itself, met a page
\* whose crawl failed and went on to crawl others
C40_Witness ==
  /\ CrawlReturned
  /\ ~InCrawl
  /\ last.web = WebWithFailures
  /\ last.startUrl = "A"
  /\ \E i \in DOMAIN last.crawls : last.crawls[i].url \in last.web.fails
  /\ Len(last.crawls) > Len(last.ret.crawledData)
  /\ Len(last.ret.crawledData) >= 3
  /\ "A" \in Range(last.web.links["A"])

====
